---- MODULE Spec2Model ----
(***************************************************************************)
(* Model of codetandem/code_parser.py: the TODO scanner (find_all_todos)   *)
(* and the block extractor (extract_todo_code).                            *)
(*                                                                         *)
(* A string is a sequence of one-character strings; a file's content is a  *)
(* string that may contain "\n".  Optional[str] and the Optional result    *)
(* are records with a tag, so that None is a value of its own.             *)
(***************************************************************************)
EXTENDS Integers, Sequences, FiniteSets, TLC

\* one call of the parser
VARIABLES file, call, pc, todo_text, todo_index, lines, todos, target_todo,
          end_line, code_lines, result, found

\* parser calls made from several threads
VARIABLES disk, tpc, targs, frame, tresult

\* the state file and the calls of state.py
VARIABLES sfile, sbefore, scall, sret, streak, clock

\* one run of the submit command
VARIABLES sub_pc, sub_opts, sub_seen, sub_trace

parserVars == <<file, call, pc, todo_text, todo_index, lines, todos, target_todo,
                end_line, code_lines, result, found>>
threadVars == <<disk, tpc, targs, frame, tresult>>
stateVars  == <<sfile, sbefore, scall, sret, streak, clock>>
submitVars == <<sub_pc, sub_opts, sub_seen, sub_trace>>
cliVars    == <<stateVars, submitVars>>

\* one call of a function without state: the call and what it gave
VARIABLES pcall, pret

pureVars == <<pcall, pret>>

\* the working directory of the commands: .taskmaster/state.json now and
\* before the last command, whether module_test.py is there, modules.json,
\* .taskmaster/tasks/tasks.json,
\* what the last command did, and the hints given so far for each module
VARIABLES tmfile, tmbefore, module_test, modules_json, tasks_json, cmd, given

cmdVars == <<tmfile, tmbefore, module_test, modules_json, tasks_json, cmd, given>>

vars == <<parserVars, threadVars, cliVars, pureVars, cmdVars>>

\* ------------------------------------------------------------------ bounds
MaxLines == 3
MaxIndex == 2
\* calls of state.py in one behaviour
MaxCalls == 3
\* tokens in a provider's answer
MaxTokens == 3
\* the highest skill level, in tenths
MaxSkill == 80
\* lines of a curriculum
MaxCurriculumLines == 3

\* ----------------------------------------------------------------- strings
NL == "\n"

\* str.lower() on the letters the inputs use
Lower(c) ==
  CASE c = "T" -> "t"
    [] c = "O" -> "o"
    [] c = "D" -> "d"
    [] c = "A" -> "a"
    [] c = "B" -> "b"
    [] OTHER   -> c

LowerStr(s) == [i \in 1..Len(s) |-> Lower(s[i])]

\* the regular expression's \s, and the whitespace of str.strip()
IsSpace(c) == c \in {" ", "\t"}

\* str.strip(): drop leading and trailing whitespace
Strip(s) ==
  LET keep == {i \in 1..Len(s) : ~IsSpace(s[i])}
  IN  IF keep = {} THEN <<>>
      ELSE LET lo == CHOOSE i \in keep : \A j \in keep : i <= j
               hi == CHOOSE i \in keep : \A j \in keep : i >= j
           IN  SubSeq(s, lo, hi)

\* needle in hay
Contains(hay, needle) ==
  \E i \in 0..(Len(hay) - Len(needle)) :
     SubSeq(hay, i + 1, i + Len(needle)) = needle

\* str.splitlines(), for content whose only line boundary is "\n"
RECURSIVE splitlines(_)
splitlines(s) ==
  IF s = <<>> THEN <<>>
  ELSE LET brk == {i \in 1..Len(s) : s[i] = NL}
       IN  IF brk = {} THEN <<s>>
           ELSE LET k == CHOOSE i \in brk : \A j \in brk : i <= j
                IN  <<SubSeq(s, 1, k - 1)>> \o splitlines(SubSeq(s, k + 1, Len(s)))

\* "\n".join(ls)
RECURSIVE JoinLines(_)
JoinLines(ls) ==
  IF ls = <<>> THEN <<>>
  ELSE IF Len(ls) = 1 THEN ls[1]
  ELSE ls[1] \o <<NL>> \o JoinLines(Tail(ls))

\* ------------------------------------------------------------------ values
NoneStr == [isNone |-> TRUE]
Str(s)  == [isNone |-> FALSE, s |-> s]
\* a test for None alone: the empty string counts as given
TruthyNotNone(t) == ~t.isNone
\* truth value of an Optional[str]: None and "" are falsy
Truthy(t) == ~t.isNone /\ t.s # <<>>

None == [kind |-> "None"]

\* the call ended with an exception that nothing caught
Raised(exc) == [kind |-> "Raised", exc |-> exc]

\* the errors of stat() that Path.exists() answers with False (pathlib up to
\* Python 3.12); every other OSError of stat() leaves exists() as it is
IgnoredErrnos == {"ENOENT", "ENOTDIR", "EBADF", "ELOOP"}

\* path.exists(): "True", "False", or the exception it raises
PathExists(f) ==
  IF f.stat = "ok" THEN "True"
  ELSE IF f.stat \in IgnoredErrnos THEN "False"
  ELSE "OSError"

\* the defaults of extract_todo_code's parameters
DefaultTodoText == NoneStr
\* the first todo as the default
DefaultTodoIndexFirst == 1 - 1
DefaultTodoIndex == -1

NoTarget == <<0, <<>>>>

CodeExtraction(todo_line, todo_content, code, start_line, end) ==
  [kind       |-> "CodeExtraction",
   todo_line  |-> todo_line,
   todo_text  |-> todo_content,
   code       |-> code,
   start_line |-> start_line,
   end_line   |-> end]

\* ------------------------------------------------------- the TODO pattern
\* re.compile(r"//\s*TODO:?\s*(.+)", re.IGNORECASE)

\* first position >= p of s that is not whitespace (Len(s)+1 if none)
RECURSIVE SkipSpaces(_, _)
SkipSpaces(s, p) ==
  IF p <= Len(s) /\ IsSpace(s[p]) THEN SkipSpaces(s, p + 1) ELSE p

\* the pattern without its `//`: any TODO word starts a match
AfterTodoWordNoSlashes(s, p) ==
  LET q == SkipSpaces(s, p)
  IN  IF q + 3 <= Len(s) /\ LowerStr(SubSeq(s, q, q + 3)) = <<"t", "o", "d", "o">>
      THEN q + 4 ELSE 0

\* position after `//\s*TODO` matched at p, 0 when it does not match there
AfterTodoWord(s, p) ==
  IF p + 1 <= Len(s) /\ s[p] = "/" /\ s[p + 1] = "/"
  THEN LET q == SkipSpaces(s, p + 2)
       IN  IF q + 3 <= Len(s) /\ LowerStr(SubSeq(s, q, q + 3)) = <<"t", "o", "d", "o">>
           THEN q + 4 ELSE 0
  ELSE 0

\* start of group 1 for a match attempted at p, 0 when the attempt fails.
\* `:?` and `\s*` are greedy; `(.+)` needs one character, so when they have
\* eaten the rest of the line the matcher backtracks: `\s*` gives back its
\* last character, and failing that `:?` gives back the colon.
GroupStart(s, p) ==
  LET q2 == AfterTodoWord(s, p)
      q3 == IF q2 <= Len(s) /\ s[q2] = ":" THEN q2 + 1 ELSE q2
      q4 == SkipSpaces(s, q3)
  IN  IF q2 = 0 THEN 0
      ELSE IF q4 <= Len(s) THEN q4
      ELSE IF q3 <= Len(s) THEN Len(s)
      ELSE IF q3 > q2 THEN q2
      ELSE 0

\* todo_pattern.search(line): the leftmost position where the pattern matches
MatchStarts(line) == {p \in 1..Len(line) : GroupStart(line, p) # 0}

HasMatch(line) == MatchStarts(line) # {}

\* the group of the rightmost match on the line
Group1OfLastMatch(line) ==
  LET p == CHOOSE i \in MatchStarts(line) : \A j \in MatchStarts(line) : i >= j
  IN  SubSeq(line, GroupStart(line, p), Len(line))

\* match.group(1), the rest of the line ((.+) is greedy)
Group1(line) ==
  LET p == CHOOSE i \in MatchStarts(line) : \A j \in MatchStarts(line) : i <= j
  IN  SubSeq(line, GroupStart(line, p), Len(line))

\* enumerate(lines) without its start: line numbers from 0
RECURSIVE ScanFromZeroBased(_, _, _)
ScanFromZeroBased(ls, line_num, acc) ==
  IF line_num > Len(ls) THEN acc
  ELSE ScanFromZeroBased(ls, line_num + 1,
                         IF HasMatch(ls[line_num])
                         THEN Append(acc, <<line_num - 1, Strip(Group1(ls[line_num]))>>)
                         ELSE acc)

\* the loop over enumerate(lines, 1)
RECURSIVE ScanFrom(_, _, _)
ScanFrom(ls, line_num, acc) ==
  IF line_num > Len(ls) THEN acc
  ELSE ScanFrom(ls, line_num + 1,
                IF HasMatch(ls[line_num])
                THEN Append(acc, <<line_num, Strip(Group1(ls[line_num]))>>)
                ELSE acc)

ScanTodos(ls) == ScanFrom(ls, 1, <<>>)

\* ---------------------------------------------------------------- selection
\* for line_num, text in todos: if todo_text.lower() in text.lower(): ... break
TextMatches(needle, text) == Contains(LowerStr(text), LowerStr(needle))

\* the loop without its break: the last matching todo wins
SelectByTextNoBreak(ts, needle) ==
  LET hits == {k \in 1..Len(ts) : TextMatches(needle, ts[k][2])}
  IN  IF hits = {} THEN NoTarget
      ELSE ts[CHOOSE k \in hits : \A j \in hits : k >= j]

SelectByText(ts, needle) ==
  LET hits == {k \in 1..Len(ts) : TextMatches(needle, ts[k][2])}
  IN  IF hits = {} THEN NoTarget
      ELSE ts[CHOOSE k \in hits : \A j \in hits : k <= j]

\* negative indices taken as out of range
SelectByIndexFromStart(ts, idx) ==
  IF idx >= 0 /\ idx < Len(ts) THEN ts[idx + 1] ELSE NoTarget

\* an index taken modulo the number of todos: never out of range
SelectByIndexWrapped(ts, idx) == ts[(idx % Len(ts)) + 1]

\* todos[todo_index], IndexError -> NoTarget
SelectByIndex(ts, idx) ==
  IF idx >= 0 /\ idx < Len(ts) THEN ts[idx + 1]
  ELSE IF idx < 0 /\ idx >= -Len(ts) THEN ts[Len(ts) + idx + 1]
  ELSE NoTarget

\* ---------------------------------------------------------------- the block
\* the loop left out: no later todo ends the block
NextTodoLineNone(ts, todo_line) == 0

\* the loop without its break: the last later todo wins
NextTodoLineNoBreak(ts, todo_line) ==
  LET later == {k \in 1..Len(ts) : ts[k][1] > todo_line}
  IN  IF later = {} THEN 0
      ELSE ts[CHOOSE k \in later : \A j \in later : k >= j][1]

\* first todo after todo_line, 0 for None
NextTodoLine(ts, todo_line) ==
  LET later == {k \in 1..Len(ts) : ts[k][1] > todo_line}
  IN  IF later = {} THEN 0
      ELSE ts[CHOOSE k \in later : \A j \in later : k <= j][1]

\* the -1 left out: the block runs up to the next todo's line
BlockEndAtNext(next_todo_line, ls) ==
  IF next_todo_line # 0 THEN next_todo_line ELSE Len(ls)

\* the last index taken for the last line number
BlockEndZeroBased(next_todo_line, ls) ==
  IF next_todo_line # 0 THEN next_todo_line - 1 ELSE Len(ls) - 1

BlockEnd(next_todo_line, ls) ==
  IF next_todo_line # 0 THEN next_todo_line - 1 ELSE Len(ls)

\* for i in range(todo_line, end_line): ... code_lines.append(lines[i])
RECURSIVE CollectFrom(_, _, _, _, _)
CollectFrom(ls, i, todo_line, end, acc) ==
  IF i >= end THEN acc
  ELSE CollectFrom(ls, i + 1, todo_line, end,
                   IF i < Len(ls) /\ i # todo_line - 1
                   THEN Append(acc, ls[i + 1])
                   ELSE acc)

\* the range starting at the TODO line itself, the skip left out
CollectWithTodoLine(ls, todo_line, end) == CollectFrom(ls, todo_line - 1, 0, end, <<>>)

CollectCodeLines(ls, todo_line, end) == CollectFrom(ls, todo_line, todo_line, end, <<>>)

\* not code_lines[-1].strip()
IsBlank(line) == Strip(line) = <<>>

\* the `not` left out: non-blank lines are popped
TrimConditionNegated(cl) == cl # <<>> /\ ~IsBlank(cl[Len(cl)])

\* the while loop's condition
TrimCondition(cl) == cl # <<>> /\ IsBlank(cl[Len(cl)])

\* code_lines.pop()
Pop(cl) == SubSeq(cl, 1, Len(cl) - 1)

\* the decrement left out
TrimmedEndKept(end) == end

\* end_line -= 1
TrimmedEnd(end) == end - 1

\* the +1 left out
StartLineAtTodo(todo_line) == todo_line

\* start_line + 1, with start_line = todo_line
StartLine(todo_line) == todo_line + 1

\* ------------------------------------------------------------------ inputs
\* "", " ", "todo x", "// TODO: Ab", "x//todo b //TODO: x ", "// TODO"
LinePool ==
  { <<>>,
    <<" ">>,
    <<"t", "o", "d", "o", " ", "x">>,
    <<"/", "/", " ", "T", "O", "D", "O", ":", " ", "A", "b">>,
    <<"x", "/", "/", "t", "o", "d", "o", " ", "b", " ", "/", "/", "T", "O", "D", "O", ":", " ", "x", " ">>,
    <<"/", "/", " ", "T", "O", "D", "O">> }

RECURSIVE TextsOfLen(_)
TextsOfLen(n) ==
  IF n = 0 THEN {<<>>}
  ELSE {Append(t, l) : t \in TextsOfLen(n - 1), l \in LinePool}

Texts == UNION {TextsOfLen(n) : n \in 0..MaxLines}

\* the file's content: the lines joined, with or without a final newline
Contents == {JoinLines(t) : t \in Texts} \cup {JoinLines(t) \o <<NL>> : t \in Texts}

\* stat: what stat() of the path gives, "ok" or the errno it fails with (no
\* such file, a name longer than the file system allows, a directory that may
\* not be searched); readable: read_text() succeeds
Files ==
  {[exists |-> FALSE, stat |-> "ENOENT", readable |-> FALSE, content |-> <<>>],
   [exists |-> FALSE, stat |-> "ENAMETOOLONG", readable |-> FALSE, content |-> <<>>],
   [exists |-> TRUE, stat |-> "EACCES", readable |-> FALSE, content |-> <<>>],
   [exists |-> TRUE, stat |-> "ok", readable |-> FALSE, content |-> <<>>]}
  \cup {[exists |-> TRUE, stat |-> "ok", readable |-> TRUE, content |-> c] : c \in Contents}

Needles == {NoneStr, Str(<<>>), Str(<<"A">>)}

Indices == (-MaxIndex)..MaxIndex

\* ----------------------------------------------------------------- machine
\* no call of state.py has been made
StateIdle ==
  /\ sfile = <<>>
  /\ sbefore = <<>>
  /\ scall = <<>>
  /\ sret = <<>>
  /\ streak = <<>>
  /\ clock = 0

\* no submit run has started
SubmitIdle ==
  /\ sub_pc = "off"
  /\ sub_opts = <<>>
  /\ sub_seen = <<>>
  /\ sub_trace = <<>>

\* no command has run in the working directory
CmdIdle ==
  /\ tmfile = <<>>
  /\ tmbefore = <<>>
  /\ module_test = FALSE
  /\ modules_json = <<>>
  /\ tasks_json = <<>>
  /\ cmd = [name |-> "none"]
  /\ given = <<>>

\* no pure function has been called
PureIdle ==
  /\ pcall = [op |-> "none"]
  /\ pret = [kind |-> "none"]

\* no command is running
CliIdle == StateIdle /\ SubmitIdle

\* the parser is not in use
ParserIdle ==
  /\ file = [exists |-> FALSE, stat |-> "ENOENT", readable |-> FALSE, content |-> <<>>]
  /\ call = "none"
  /\ pc = "off"
  /\ todo_text = DefaultTodoText
  /\ todo_index = DefaultTodoIndex
  /\ lines = <<>>
  /\ todos = <<>>
  /\ target_todo = NoTarget
  /\ end_line = 0
  /\ code_lines = <<>>
  /\ result = None
  /\ found = <<>>

\* no thread is running
ThreadsIdle ==
  /\ disk = <<>>
  /\ tpc = <<>>
  /\ targs = <<>>
  /\ frame = <<>>
  /\ tresult = <<>>

Init ==
  /\ file \in Files
  /\ call = "none"
  /\ pc = "idle"
  /\ todo_text = DefaultTodoText
  /\ todo_index = DefaultTodoIndex
  /\ lines = <<>>
  /\ todos = <<>>
  /\ target_todo = NoTarget
  /\ end_line = 0
  /\ code_lines = <<>>
  /\ result = None
  /\ found = <<>>
  /\ ThreadsIdle
  /\ CliIdle
  /\ PureIdle
  /\ CmdIdle

\* extract_todo_code from its entry to `if not todos`
Enter(needle, idx) ==
  /\ pc = "idle"
  /\ todo_text' = needle
  /\ todo_index' = idx
  /\ IF PathExists(file) = "OSError"
     THEN /\ lines' = <<>>
          /\ todos' = <<>>
          /\ result' = Raised("OSError")
          /\ pc' = "raised"
     ELSE IF PathExists(file) = "False" \/ ~file.readable
     THEN /\ lines' = <<>>
          /\ todos' = <<>>
          /\ result' = None
          /\ pc' = "done"
     ELSE LET ls == splitlines(file.content)
              ts == ScanTodos(ls)
          IN  /\ lines' = ls
              /\ todos' = ts
              /\ result' = None
              /\ pc' = IF ts = <<>> THEN "done" ELSE "select"
  /\ UNCHANGED <<file, target_todo, end_line, code_lines, found>>
  /\ UNCHANGED <<threadVars, cliVars, pureVars, cmdVars>>

\* extract_todo_code(file_path, todo_text, todo_index)
Call(needle, idx) ==
  /\ Enter(needle, idx)
  /\ call' = "extract"

\* extract_todo_code(file_path)
CallDefault ==
  /\ Enter(DefaultTodoText, DefaultTodoIndex)
  /\ call' = "extract_default"

\* select the target TODO
Select ==
  /\ pc = "select"
  /\ LET t == IF Truthy(todo_text)
              THEN SelectByText(todos, todo_text.s)
              ELSE SelectByIndex(todos, todo_index)
     IN  /\ target_todo' = t
         /\ pc' = IF t = NoTarget THEN "done" ELSE "collect"
  /\ UNCHANGED <<file, call, todo_text, todo_index, lines, todos, end_line, code_lines, result, found>>
  /\ UNCHANGED <<threadVars, cliVars, pureVars, cmdVars>>

\* the end of the block and the lines collected into code_lines
Collect ==
  /\ pc = "collect"
  /\ LET e == BlockEnd(NextTodoLine(todos, target_todo[1]), lines)
     IN  /\ end_line' = e
         /\ code_lines' = CollectCodeLines(lines, target_todo[1], e)
  /\ pc' = "collected"
  /\ UNCHANGED <<file, call, todo_text, todo_index, lines, todos, target_todo, result, found>>
  /\ UNCHANGED <<threadVars, cliVars, pureVars, cmdVars>>

\* one iteration of the trimming loop
TrimPop ==
  /\ pc \in {"collected", "trimming"}
  /\ TrimCondition(code_lines)
  /\ code_lines' = Pop(code_lines)
  /\ end_line' = TrimmedEnd(end_line)
  /\ pc' = "trimming"
  /\ UNCHANGED <<file, call, todo_text, todo_index, lines, todos, target_todo, result, found>>
  /\ UNCHANGED <<threadVars, cliVars, pureVars, cmdVars>>

\* the loop ends: join and return
Return ==
  /\ pc \in {"collected", "trimming"}
  /\ ~TrimCondition(code_lines)
  /\ result' = CodeExtraction(target_todo[1], target_todo[2], JoinLines(code_lines),
                              StartLine(target_todo[1]), end_line)
  /\ pc' = "done"
  /\ UNCHANGED <<file, call, todo_text, todo_index, lines, todos, target_todo, end_line, code_lines, found>>
  /\ UNCHANGED <<threadVars, cliVars, pureVars, cmdVars>>

\* what find_all_todos returns for a file, or raises
find_all_todos(f) ==
  IF PathExists(f) = "OSError" THEN Raised("OSError")
  ELSE IF PathExists(f) = "False" \/ ~f.readable THEN [kind |-> "list", todos |-> <<>>]
  ELSE [kind |-> "list", todos |-> ScanTodos(splitlines(f.content))]

\* find_all_todos(file_path)
FindAllTodos ==
  /\ pc = "idle"
  /\ call' = "find"
  /\ IF PathExists(file) = "OSError"
     THEN /\ lines' = <<>>
          /\ found' = <<>>
          /\ result' = Raised("OSError")
          /\ pc' = "raised"
     ELSE IF PathExists(file) = "False" \/ ~file.readable
     THEN /\ lines' = <<>>
          /\ found' = <<>>
          /\ result' = None
          /\ pc' = "scanned"
     ELSE LET ls == splitlines(file.content)
          IN  /\ lines' = ls
              /\ found' = ScanTodos(ls)
              /\ result' = None
              /\ pc' = "scanned"
  /\ UNCHANGED <<file, todo_text, todo_index, todos, target_todo, end_line, code_lines>>
  /\ UNCHANGED <<threadVars, cliVars, pureVars, cmdVars>>

Next ==
  \/ \E needle \in Needles, idx \in Indices : Call(needle, idx)
  \/ CallDefault
  \/ Select
  \/ Collect
  \/ TrimPop
  \/ Return
  \/ FindAllTodos

Spec == Init /\ [][Next]_vars

TypeOK ==
  /\ call \in {"none", "extract", "extract_default", "find"}
  /\ pc \in {"idle", "select", "collect", "collected", "trimming", "done", "scanned", "raised"}
  /\ result.kind \in {"None", "CodeExtraction", "Raised"}

\* ----------------------------------------------------------------- threads
\* Calls of extract_todo_code and find_all_todos made from several threads.
\* The functions keep everything in local variables: each call has a frame
\* of its own, and the threads take steps in any order.

Threads == {"t1", "t2"}
Paths == {"a.py", "b.py"}

TodoAbLine == <<"/", "/", " ", "T", "O", "D", "O", ":", " ", "A", "b">>
TodoBLine  == <<"/", "/", "t", "o", "d", "o", " ", "b">>
CodeLine   == <<"t", "o", "d", "o", " ", "x">>

\* the texts on disk
ThreadContents ==
  { JoinLines(<<TodoAbLine, CodeLine, <<>>>>) \o <<NL>>,
    JoinLines(<<TodoBLine, TodoAbLine, CodeLine>>),
    JoinLines(<<CodeLine>>) \o <<NL>> }

ThreadSelectors ==
  { <<DefaultTodoText, DefaultTodoIndex>>, <<NoneStr, 0>>, <<Str(<<"A">>), DefaultTodoIndex>> }

NoArgs == [path |-> "", call |-> "none", todo_text |-> NoneStr, todo_index |-> 0]

EmptyFrame ==
  [lines |-> <<>>, todos |-> <<>>, target_todo |-> NoTarget, end_line |-> 0, code_lines |-> <<>>]

\* every call keeps its locals in one frame, whoever calls
SharedFrame(t) == "t1"

\* the frame that holds the local variables of thread t's call
FrameOf(t) == t

Locals(t) == frame[FrameOf(t)]

\* the whole trimming loop
RECURSIVE TrimAll(_, _)
TrimAll(cl, end) ==
  IF TrimCondition(cl) THEN TrimAll(Pop(cl), TrimmedEnd(end)) ELSE <<cl, end>>

\* extract_todo_code run alone on a readable file with this content
ExtractAlone(content, needle, idx) ==
  LET ls == splitlines(content)
      ts == ScanTodos(ls)
      t  == IF Truthy(needle) THEN SelectByText(ts, needle.s) ELSE SelectByIndex(ts, idx)
  IN  IF ts = <<>> \/ t = NoTarget THEN None
      ELSE LET e  == BlockEnd(NextTodoLine(ts, t[1]), ls)
               tr == TrimAll(CollectCodeLines(ls, t[1], e), e)
           IN  CodeExtraction(t[1], t[2], JoinLines(tr[1]), StartLine(t[1]), tr[2])

\* the list find_all_todos returns
TodoList(ts) == [kind |-> "list", todos |-> ts]

\* find_all_todos run alone on a readable file with this content
FindAlone(content) == TodoList(ScanTodos(splitlines(content)))

ThreadsInit ==
  /\ disk \in [Paths -> ThreadContents]
  /\ tpc = [t \in Threads |-> "idle"]
  /\ targs = [t \in Threads |-> NoArgs]
  /\ frame = [t \in Threads |-> EmptyFrame]
  /\ tresult = [t \in Threads |-> None]
  /\ ParserIdle
  /\ CliIdle
  /\ PureIdle
  /\ CmdIdle

\* thread t enters extract_todo_code: read, split and scan
TEnter(t, p, sel) ==
  /\ tpc[t] = "idle"
  /\ targs' = [targs EXCEPT ![t] = [path |-> p, call |-> "extract",
                                    todo_text |-> sel[1], todo_index |-> sel[2]]]
  /\ LET ls == splitlines(disk[p])
         ts == ScanTodos(ls)
     IN  /\ frame' = [frame EXCEPT ![FrameOf(t)] = [EmptyFrame EXCEPT !.lines = ls, !.todos = ts]]
         /\ tpc' = [tpc EXCEPT ![t] = IF ts = <<>> THEN "done" ELSE "select"]
  /\ tresult' = [tresult EXCEPT ![t] = None]
  /\ UNCHANGED <<disk, parserVars, cliVars, pureVars, cmdVars>>

TSelect(t) ==
  /\ tpc[t] = "select"
  /\ LET ts  == Locals(t).todos
         sel == IF Truthy(targs[t].todo_text)
                THEN SelectByText(ts, targs[t].todo_text.s)
                ELSE SelectByIndex(ts, targs[t].todo_index)
     IN  /\ frame' = [frame EXCEPT ![FrameOf(t)].target_todo = sel]
         /\ tpc' = [tpc EXCEPT ![t] = IF sel = NoTarget THEN "done" ELSE "collect"]
  /\ UNCHANGED <<disk, targs, tresult, parserVars, cliVars, pureVars, cmdVars>>

TCollect(t) ==
  /\ tpc[t] = "collect"
  /\ LET f == Locals(t)
         e == BlockEnd(NextTodoLine(f.todos, f.target_todo[1]), f.lines)
     IN  frame' = [frame EXCEPT ![FrameOf(t)].end_line = e,
                                ![FrameOf(t)].code_lines =
                                   CollectCodeLines(f.lines, f.target_todo[1], e)]
  /\ tpc' = [tpc EXCEPT ![t] = "trim"]
  /\ UNCHANGED <<disk, targs, tresult, parserVars, cliVars, pureVars, cmdVars>>

TTrimPop(t) ==
  /\ tpc[t] = "trim"
  /\ TrimCondition(Locals(t).code_lines)
  /\ frame' = [frame EXCEPT ![FrameOf(t)].code_lines = Pop(@),
                            ![FrameOf(t)].end_line = TrimmedEnd(@)]
  /\ UNCHANGED <<disk, tpc, targs, tresult, parserVars, cliVars, pureVars, cmdVars>>

TReturn(t) ==
  /\ tpc[t] = "trim"
  /\ ~TrimCondition(Locals(t).code_lines)
  /\ LET f == Locals(t)
     IN  tresult' = [tresult EXCEPT ![t] =
                       CodeExtraction(f.target_todo[1], f.target_todo[2], JoinLines(f.code_lines),
                                      StartLine(f.target_todo[1]), f.end_line)]
  /\ tpc' = [tpc EXCEPT ![t] = "done"]
  /\ UNCHANGED <<disk, targs, frame, parserVars, cliVars, pureVars, cmdVars>>

\* thread t enters find_all_todos: read and split
TFindEnter(t, p) ==
  /\ tpc[t] = "idle"
  /\ targs' = [targs EXCEPT ![t] = [NoArgs EXCEPT !.path = p, !.call = "find"]]
  /\ frame' = [frame EXCEPT ![FrameOf(t)] = [EmptyFrame EXCEPT !.lines = splitlines(disk[p])]]
  /\ tpc' = [tpc EXCEPT ![t] = "scan"]
  /\ UNCHANGED <<disk, tresult, parserVars, cliVars, pureVars, cmdVars>>

\* the scanning loop of find_all_todos and its return
TFindReturn(t) ==
  /\ tpc[t] = "scan"
  /\ tresult' = [tresult EXCEPT ![t] = TodoList(ScanTodos(Locals(t).lines))]
  /\ tpc' = [tpc EXCEPT ![t] = "done"]
  /\ UNCHANGED <<disk, targs, frame, parserVars, cliVars, pureVars, cmdVars>>

ThreadsNext ==
  \/ \E t \in Threads, p \in Paths, sel \in ThreadSelectors : TEnter(t, p, sel)
  \/ \E t \in Threads : TSelect(t)
  \/ \E t \in Threads : TCollect(t)
  \/ \E t \in Threads : TTrimPop(t)
  \/ \E t \in Threads : TReturn(t)
  \/ \E t \in Threads, p \in Paths : TFindEnter(t, p)
  \/ \E t \in Threads : TFindReturn(t)

SpecThreads == ThreadsInit /\ [][ThreadsNext]_vars

\* -------------------------------------------------------------- state file
(***************************************************************************)
(* Model of codetandem/state.py.  A JSON object is a function from its     *)
(* keys; a file is absent or holds one object.  Timestamps are readings of *)
(* a clock that advances with every call.  Scores are the integer-valued   *)
(* floats, on which the addition of two doubles is exact.                  *)
(***************************************************************************)

ModuleIds == {"module_1", "module_2"}

\* dictionary operations
Put(d, k, v) == (k :> v) @@ d
Get(d, k, default) == IF k \in DOMAIN d THEN d[k] ELSE default

\* files
Absent == [exists |-> FALSE]
OnDisk(d) == [exists |-> TRUE, data |-> d]

\* how a call ends
Returns(v) == [kind |-> "return", value |-> v]
Raises(exc, what) == [kind |-> "raise", exc |-> exc, what |-> what]
Outcome(f, r) == [file |-> f, ret |-> r]

\* Optional arguments
NoneArg == [isNone |-> TRUE]
Some(v) == [isNone |-> FALSE, v |-> v]

RequiredFieldsShort == <<"current_module_id", "skill_scores">>
RequiredFields == <<"current_module_id", "skill_scores", "completed_modules">>

\* the required fields that the object lacks, in the order of the loop
MissingFields(d) == SelectSeq(RequiredFields, LAMBDA field : field \notin DOMAIN d)

load_state(f) ==
  IF ~f.exists
    THEN Raises("FileNotFoundError", "state_path")
    ELSE IF MissingFields(f.data) # <<>>
      THEN Raises("ValueError", Head(MissingFields(f.data)))
      ELSE Returns(f.data)

\* the keys that the updates subscript, in the order of the code; a key set
\* by an earlier update is there when a later one reads it
KeysRead(a) ==
     (IF ~a.skill_score.isNone
        THEN (IF a.current_module_id.isNone THEN <<"current_module_id">> ELSE <<>>)
             \o <<"skill_scores">>
        ELSE <<>>)
  \o (IF ~a.completed_module_id.isNone THEN <<"completed_modules">> ELSE <<>>)
  \o (IF ~a.hint_count.isNone /\ a.current_module_id.isNone
        THEN <<"current_module_id">> ELSE <<>>)

\* the membership test left out: every completion is appended
AppendAlways(list, x) == Append(list, x)

\* lines 141-142: append unless the list has the id already
AppendIfNew(list, x) ==
  IF \E i \in 1..Len(list) : list[i] = x THEN list ELSE Append(list, x)

update_state(f, a, now) ==
  LET loaded == load_state(f)
  IN IF loaded.kind = "raise" THEN Outcome(f, loaded)
     ELSE
       LET state == loaded.value
           absent == SelectSeq(KeysRead(a), LAMBDA k : k \notin DOMAIN state)
       IN IF absent # <<>> THEN Outcome(f, Raises("KeyError", Head(absent)))
          ELSE
            LET s1 == IF a.current_module_id.isNone THEN state
                      ELSE Put(state, "current_module_id", a.current_module_id.v)
                s2 == IF a.skill_score.isNone THEN s1
                      ELSE Put(s1, "skill_scores",
                               Put(s1["skill_scores"], s1["current_module_id"],
                                   a.skill_score.v))
                s3 == IF a.completed_module_id.isNone THEN s2
                      ELSE Put(s2, "completed_modules",
                               AppendIfNew(s2["completed_modules"],
                                           a.completed_module_id.v))
                s4 == IF a.project_tree.isNone THEN s3
                      ELSE Put(s3, "project_tree", a.project_tree.v)
                s5 == IF a.hint_count.isNone THEN s4
                      ELSE Put(s4, "hints",
                               Put(Get(s4, "hints", <<>>), s4["current_module_id"],
                                   a.hint_count.v))
                s6 == IF a.difficulty_override.isNone THEN s5
                      ELSE Put(s5, "difficulty_override", a.difficulty_override.v)
                s7 == IF a.assessment_pending.isNone THEN s6
                      ELSE Put(s6, "assessment_pending", a.assessment_pending.v)
                s8 == Put(s7, "updated_at", now)
            IN Outcome(OnDisk(s8), Returns(s8))

NewScoreReplaced(current_score, points) == points
NewScore(current_score, points) == current_score + points

increment_skill_score(f, module_id, points, now) ==
  LET loaded == load_state(f)
  IN IF loaded.kind = "raise" THEN Outcome(f, loaded)
     ELSE
       LET state == loaded.value
       IN IF "skill_scores" \notin DOMAIN state
            THEN Outcome(f, Raises("KeyError", "skill_scores"))
            ELSE
              LET current_score == Get(state["skill_scores"], module_id, 0)
                  new_score == NewScore(current_score, points)
                  s1 == Put(state, "skill_scores",
                            Put(state["skill_scores"], module_id, new_score))
                  s2 == Put(s1, "updated_at", now)
              IN Outcome(OnDisk(s2), Returns(new_score))

\* curriculum.Module
Module(id, title, objectives) == [id |-> id, title |-> title, objectives |-> objectives]

\* modules.load_modules: the Module objects of modules.json
load_modules(mf) ==
  IF ~mf.exists
    THEN Raises("FileNotFoundError", "modules_path")
    ELSE IF "modules" \notin DOMAIN mf.data
      THEN Raises("ValueError", "modules")
      ELSE Returns([i \in 1..Len(mf.data["modules"]) |->
                     Module(mf.data["modules"][i]["id"],
                            mf.data["modules"][i]["title"],
                            Get(mf.data["modules"][i], "objectives", <<>>))])

\* scanner.get_file_tree: the project path must be an existing directory
get_file_tree(project) ==
  IF project.kind # "dir"
    THEN Raises("ValueError", "project_path")
    ELSE Returns(project.tree)

LastModule(modules) == modules[Len(modules)]
FirstModule(modules) == modules[1]

generate_initial_state(mf, project, f, initial_skill_score, now) ==
  LET loaded == load_modules(mf)
  IN IF loaded.kind = "raise" THEN Outcome(f, loaded)
     ELSE
       LET modules == loaded.value
       IN IF modules = <<>>
            THEN Outcome(f, Raises("ValueError", "no modules"))
            ELSE
              LET first_module == FirstModule(modules)
                  file_tree == get_file_tree(project)
              IN IF file_tree.kind = "raise" THEN Outcome(f, file_tree)
                 ELSE
                   LET state_data ==
                         [ version |-> "1.0",
                           created_at |-> now,
                           updated_at |-> now,
                           current_module_id |-> first_module.id,
                           skill_scores |-> (first_module.id :> initial_skill_score),
                           completed_modules |-> <<>>,
                           project_tree |-> file_tree.value,
                           metadata |-> [ total_modules |-> Len(modules),
                                          project_path |-> project.path ] ]
                   IN Outcome(OnDisk(state_data), Returns(state_data))

\* ---------------------------------------------------- state file: inputs
\* a state as the tests write it, and one after some work on the project
FreshState ==
  [ current_module_id |-> "module_1",
    skill_scores |-> ("module_1" :> 0),
    completed_modules |-> <<>>,
    updated_at |-> 0 ]
LaterState ==
  [ current_module_id |-> "module_2",
    skill_scores |-> ("module_1" :> 10 @@ "module_2" :> 3),
    completed_modules |-> <<"module_1">>,
    updated_at |-> 0 ]

\* the object without one key
Without(d, k) == [x \in DOMAIN d \ {k} |-> d[x]]

StateFiles ==
  {Absent, OnDisk(FreshState), OnDisk(LaterState)}
    \cup {OnDisk(Without(FreshState, k)) :
             k \in {"current_module_id", "skill_scores", "completed_modules"}}

\* the arguments of update_state; all of them default to None
NoUpdate ==
  [ current_module_id |-> NoneArg, skill_score |-> NoneArg,
    completed_module_id |-> NoneArg, project_tree |-> NoneArg,
    hint_count |-> NoneArg, difficulty_override |-> NoneArg,
    assessment_pending |-> NoneArg ]
UpdateArgs ==
  { [NoUpdate EXCEPT !.current_module_id = c, !.skill_score = s,
                     !.completed_module_id = m] :
      c \in {NoneArg, Some("module_2")},
      s \in {NoneArg, Some(7)},
      m \in {NoneArg} \cup {Some(id) : id \in ModuleIds} }
  \cup { [NoUpdate EXCEPT !.project_tree = Some(<<"main.py", "util.py">>)],
         [NoUpdate EXCEPT !.hint_count = Some(1)],
         [NoUpdate EXCEPT !.difficulty_override = Some("easy")],
         [NoUpdate EXCEPT !.assessment_pending = Some(TRUE)] }

Points == {1, 2}

\* an entry of modules.json
ModuleData(id, title) == [id |-> id, title |-> title]
ModulesFiles ==
  { Absent,
    OnDisk([version |-> "1.0"]),
    OnDisk([modules |-> <<>>]),
    OnDisk([modules |-> <<ModuleData("module_1", "Basics")>>]),
    OnDisk([modules |-> <<ModuleData("module_2", "Loops"), ModuleData("module_1", "Basics")>>]) }
Projects ==
  { [kind |-> "missing", path |-> "/project"],
    [kind |-> "dir", path |-> "/project", tree |-> <<"main.py">>] }
GenerateArgs ==
  { [modules_path |-> mf, project_path |-> p, initial_skill_score |-> 0] :
      mf \in ModulesFiles, p \in Projects }
  \cup { [modules_path |-> mf, project_path |-> p, initial_skill_score |-> 5] :
           mf \in {m \in ModulesFiles : m.exists /\ "modules" \in DOMAIN m.data},
           p \in {q \in Projects : q.kind = "dir"} }

\* --------------------------------------------------- state file: machine
NoCall == [op |-> "none"]
NoReturn == [kind |-> "none"]
NoStreak == [module_id |-> "", points |-> 0, k |-> 0, base |-> 0]

StateInit ==
  /\ sfile \in StateFiles
  /\ sbefore = sfile
  /\ scall = NoCall
  /\ sret = NoReturn
  /\ streak = NoStreak
  /\ clock = 0
  /\ SubmitIdle
  /\ ParserIdle
  /\ ThreadsIdle
  /\ PureIdle
  /\ CmdIdle

\* one call of a function of state.py on the state file, from entry to return
\* or raise; the clock is read for the timestamps
Ran(op, args, out) ==
  /\ clock < MaxCalls
  /\ clock' = clock + 1
  /\ sbefore' = sfile
  /\ scall' = [op |-> op, args |-> args]
  /\ sfile' = out.file
  /\ sret' = out.ret
  /\ UNCHANGED <<submitVars, parserVars, threadVars, pureVars, cmdVars>>

LoadStateCall ==
  /\ Ran("load_state", <<>>, Outcome(sfile, load_state(sfile)))
  /\ streak' = NoStreak

UpdateStateCall(a) ==
  /\ Ran("update_state", a, update_state(sfile, a, clock + 1))
  /\ streak' = NoStreak

\* streak counts the successive calls for one module with the same points
IncrementSkillScoreCall(module_id, points) ==
  LET out == increment_skill_score(sfile, module_id, points, clock + 1)
      args == [module_id |-> module_id, points |-> points]
  IN /\ Ran("increment_skill_score", args, out)
     /\ streak' =
          IF out.ret.kind # "return" THEN NoStreak
          ELSE IF streak.k > 0 /\ streak.module_id = module_id /\ streak.points = points
            THEN [streak EXCEPT !.k = @ + 1]
            ELSE [ module_id |-> module_id, points |-> points, k |-> 1,
                   base |-> Get(sfile.data["skill_scores"], module_id, 0) ]

GenerateInitialStateCall(a) ==
  /\ Ran("generate_initial_state", a,
         generate_initial_state(a.modules_path, a.project_path, sfile,
                                a.initial_skill_score, clock + 1))
  /\ streak' = NoStreak

StateNext ==
  \/ LoadStateCall
  \/ \E a \in UpdateArgs : UpdateStateCall(a)
  \/ \E m \in ModuleIds, p \in Points : IncrementSkillScoreCall(m, p)
  \/ \E a \in GenerateArgs : GenerateInitialStateCall(a)

SpecState == StateInit /\ [][StateNext]_vars

\* ------------------------------------------------------------------ submit
(***************************************************************************)
(* Model of commands/submit.py: one run of main.  What the run finds in    *)
(* the project (modules.json, files with markers, the linter's and the     *)
(* provider's answers) is chosen at the step that looks at it.  sub_trace  *)
(* lists the four numbered steps of the command in the order they ran,     *)
(* sub_seen what they gave, sbefore the state file at the start.           *)
(***************************************************************************)

NoOptions == [skip_lint |-> FALSE, points |-> 0]
NothingSeen ==
  [ assessment |-> FALSE, current_module |-> "", block |-> FALSE,
    lint |-> "none", review |-> "none", increments |-> 0, grader |-> "none" ]

\* what providers.factory.get_ai_provider and the provider's chat do in a
\* run: no provider is configured (ValueError), chat raises an API error, or
\* chat answers with a text that starts with pass or with something else
Providers == {"unconfigured", "error", "pass", "fail"}
Answers(provider) == provider \in {"pass", "fail"}

\* a state with the flag that the test command sets
PendingState == Put(LaterState, "assessment_pending", TRUE)
SubmitStateFiles == StateFiles \cup {OnDisk(PendingState)}

SubmitInit ==
  /\ sfile \in SubmitStateFiles
  /\ sbefore = sfile
  /\ scall = NoCall
  /\ sret = NoReturn
  /\ streak = NoStreak
  /\ clock = 0
  /\ sub_pc = "main"
  /\ sub_opts = NoOptions
  /\ sub_seen = NothingSeen
  /\ sub_trace = <<>>
  /\ module_test \in BOOLEAN
  /\ tmfile = <<>>
  /\ tmbefore = <<>>
  /\ modules_json = <<>>
  /\ tasks_json = <<>>
  /\ cmd = [name |-> "none"]
  /\ given = <<>>
  /\ ParserIdle
  /\ ThreadsIdle
  /\ PureIdle

\* a step of the run that leaves the state file alone
SubmitStep(from, to) ==
  /\ sub_pc = from
  /\ sub_pc' = to
  /\ UNCHANGED <<sfile, sbefore, scall, sret, streak, clock, parserVars, threadVars, pureVars, cmdVars>>

\* lines 64-72: the options are bound, the state is loaded, and the run takes
\* the assessment branch when the state says so; an error of load_state is
\* not caught
SubmitMain(skip_lint, points) ==
  LET state == load_state(sfile)
  IN /\ SubmitStep("main",
                   IF state.kind = "raise" THEN "raised"
                   ELSE IF Get(state.value, "assessment_pending", FALSE) = TRUE
                     THEN "assessment" ELSE "context")
     /\ sub_opts' = [skip_lint |-> skip_lint, points |-> points]
     /\ sub_seen' = [sub_seen EXCEPT !.assessment =
                       state.kind = "return"
                       /\ Get(state.value, "assessment_pending", FALSE) = TRUE]
     /\ UNCHANGED sub_trace

\* lines 73-83: the assessment branch ends with exit code 1 when
\* module_test.py is missing; otherwise get_ai_provider raises, or line 83
\* reads the local variable context, which is bound only at line 132, so
\* the provider that was obtained is never asked
SubmitAssessment(provider) ==
  /\ SubmitStep("assessment", IF module_test THEN "raised" ELSE "exit1")
  /\ sub_seen' = [sub_seen EXCEPT !.grader = IF module_test THEN provider ELSE @]
  /\ UNCHANGED <<sub_opts, sub_trace>>

\* the module of modules.json with this id (modules.get_module_by_id)
HasModule(modules, id) == \E i \in 1..Len(modules) : modules[i].id = id

\* lines 130-135, tandem.load_project_context: modules.json must be there
\* and list the current module of the state
SubmitContext(mf) ==
  LET modules == load_modules(mf)
      state == load_state(sfile)
      ok == /\ modules.kind = "return"
            /\ modules.value # <<>>
            /\ state.kind = "return"
            /\ HasModule(modules.value, state.value["current_module_id"])
  IN /\ SubmitStep("context", IF ok THEN "file" ELSE "exit1")
     /\ sub_seen' = [sub_seen EXCEPT !.current_module =
                       IF ok THEN state.value["current_module_id"] ELSE @]
     /\ UNCHANGED <<sub_opts, sub_trace>>

\* lines 137-176: the file is given, or it is the first file in which
\* find_all_todos finds a marker (exit code 1 when there is none); an OSError
\* of find_all_todos, or a file outside the project at line 175, ends the run
WaysToFile == {"given", "found", "none", "error"}
SubmitFile(way) ==
  /\ SubmitStep("file", CASE way \in {"given", "found"} -> "extract"
                          [] way = "none" -> "exit1"
                          [] OTHER -> "raised")
  /\ UNCHANGED <<sub_opts, sub_seen, sub_trace>>

\* lines 178-187: extract_todo_code gives a block or None, or raises OSError
Extractions == {"block", "None", "OSError"}
SubmitExtract(extraction) ==
  /\ SubmitStep("extract", CASE extraction = "OSError" -> "raised"
                             [] extraction = "None" -> "exit1"
                             [] OTHER -> IF sub_opts.skip_lint THEN "provider" ELSE "lint")
  /\ sub_seen' = [sub_seen EXCEPT !.block = extraction = "block"]
  /\ sub_trace' = Append(sub_trace, "extract")
  /\ UNCHANGED sub_opts

\* lines 190-208: run_linter always returns a LintResult
SubmitLint(success) ==
  /\ SubmitStep("lint", IF success THEN "provider" ELSE "exit1")
  /\ sub_seen' = [sub_seen EXCEPT !.lint = IF success THEN "ok" ELSE "failed"]
  /\ sub_trace' = Append(sub_trace, "lint")
  /\ UNCHANGED sub_opts

\* lines 211-220
SubmitProvider(available) ==
  /\ SubmitStep("provider", IF available THEN "review" ELSE "exit1")
  /\ UNCHANGED <<sub_opts, sub_seen, sub_trace>>

AlwaysAwarded(success) == TRUE
\* line 253
ScoreAwarded(success) == success

\* lines 223-253, 289-291: review_code_with_ai always returns a ReviewResult
SubmitReview(success) ==
  /\ SubmitStep("review", IF ScoreAwarded(success) THEN "score" ELSE "exit1")
  /\ sub_seen' = [sub_seen EXCEPT !.review = IF success THEN "success" ELSE "fail"]
  /\ sub_trace' = Append(sub_trace, "review")
  /\ UNCHANGED sub_opts

\* lines 254-288: the score of the current module is incremented; whatever is
\* raised there or by the reads that follow is caught, and the run ends with
\* exit code 0
SubmitScore ==
  LET args == [module_id |-> sub_seen.current_module, points |-> sub_opts.points]
      out == increment_skill_score(sfile, args.module_id, args.points, clock + 1)
  IN /\ sub_pc = "score"
     /\ sub_pc' = "exit0"
     /\ scall' = [op |-> "increment_skill_score", args |-> args]
     /\ sret' = out.ret
     /\ sfile' = out.file
     /\ clock' = clock + 1
     /\ sub_seen' = [sub_seen EXCEPT !.increments = @ + 1]
     /\ sub_trace' = Append(sub_trace, "score")
     /\ UNCHANGED <<sbefore, streak, sub_opts, parserVars, threadVars, pureVars, cmdVars>>

SubmitNext ==
  \/ \E skip_lint \in BOOLEAN, points \in Points : SubmitMain(skip_lint, points)
  \/ \E provider \in Providers : SubmitAssessment(provider)
  \/ \E mf \in ModulesFiles : SubmitContext(mf)
  \/ \E way \in WaysToFile : SubmitFile(way)
  \/ \E extraction \in Extractions : SubmitExtract(extraction)
  \/ \E success \in BOOLEAN : SubmitLint(success)
  \/ \E available \in BOOLEAN : SubmitProvider(available)
  \/ \E success \in BOOLEAN : SubmitReview(success)
  \/ SubmitScore

SpecSubmit == SubmitInit /\ [][SubmitNext]_vars

\* ------------------------------------------------------------------ review
(***************************************************************************)
(* Model of codetandem/review.py.  The provider's answer is a sequence of  *)
(* tokens: white space, the two Markdown fences, prose, and JSON texts,    *)
(* each of which stands for the value it denotes.  JSON values and Python  *)
(* values carry a tag, so that True, "true" and 1 are different values.    *)
(***************************************************************************)

JBool(b) == [t |-> "bool", v |-> b]
JStr(s)  == [t |-> "str", v |-> s]
JNum(n)  == [t |-> "num", v |-> n]
JObject(fields) == [t |-> "object", v |-> fields]
JArray(items) == [t |-> "array", v |-> items]
\* JSON null and Python None
PyNone == [t |-> "null", v |-> "None"]

\* tokens of a response text; "fence_json" is the opening fence with the
\* language name, "fence" the three backquotes alone
WS == [tok |-> "ws"]
FenceJson == [tok |-> "fence_json"]
Fence == [tok |-> "fence"]
Prose == [tok |-> "prose"]
JsonText(value) == [tok |-> "json", value |-> value]

\* str.strip()
RECURSIVE LStripTokens(_)
LStripTokens(text) ==
  IF text # <<>> /\ Head(text).tok = "ws" THEN LStripTokens(Tail(text)) ELSE text
RECURSIVE RStripTokens(_)
RStripTokens(text) ==
  IF text # <<>> /\ text[Len(text)].tok = "ws"
    THEN RStripTokens(SubSeq(text, 1, Len(text) - 1))
    ELSE text
StripTokens(text) == RStripTokens(LStripTokens(text))

StartsWith(text, tok) == text # <<>> /\ Head(text).tok = tok
EndsWith(text, tok) == text # <<>> /\ text[Len(text)].tok = tok

\* lines 142-153: the text between the fences
Unfenced(response_text) ==
  LET t1 == StripTokens(response_text)
      t2 == IF StartsWith(t1, "fence_json") THEN Tail(t1)
            ELSE IF StartsWith(t1, "fence") THEN Tail(t1)
            ELSE t1
      t3 == IF EndsWith(t2, "fence") THEN SubSeq(t2, 1, Len(t2) - 1) ELSE t2
  IN StripTokens(t3)

\* json.loads: one JSON text, white space around it allowed
json_loads(text) ==
  LET t == StripTokens(text)
  IN IF Len(t) = 1 /\ t[1].tok = "json"
       THEN Returns(t[1].value)
       ELSE Raises("JSONDecodeError", "text")

ReviewResult(success, feedback, score, suggestions) ==
  [success |-> success, feedback |-> feedback, score |-> score,
   suggestions |-> suggestions]

SuccessDefaultTrue == JBool(TRUE)
\* the default of data.get("success", False)
SuccessDefault == JBool(FALSE)

\* lines 155-171: only a JSONDecodeError is handled here; a JSON value that
\* is not an object has no get()
parse_review_response(response_text) ==
  LET data == json_loads(Unfenced(response_text))
  IN IF data.kind = "raise"
       THEN Returns(ReviewResult(JBool(FALSE), JStr("Failed to parse AI response"),
                                 PyNone, PyNone))
       ELSE IF data.value.t # "object"
         THEN Raises("AttributeError", "get")
         ELSE Returns(ReviewResult(
                Get(data.value.v, "success", SuccessDefault),
                Get(data.value.v, "feedback", JStr("No feedback provided")),
                Get(data.value.v, "score", PyNone),
                Get(data.value.v, "suggestions", PyNone)))

ReviewError == ReviewResult(JBool(FALSE), JStr("Error during AI review"), PyNone, PyNone)

\* lines 194-214: chat raises, or gives something to await; what the chat of
\* a BaseAIProvider returns is a plain AIResponse, and awaiting it is a
\* TypeError; every Exception ends in the error result
review_code_with_ai(chat) ==
  IF chat.kind = "raise" THEN Returns(ReviewError)
  ELSE IF chat.kind = "plain" THEN Returns(ReviewError)
  ELSE LET parsed == parse_review_response(chat.content)
       IN IF parsed.kind = "raise" THEN Returns(ReviewError) ELSE parsed

\* ----------------------------------------------------------- review: inputs
JsonValues ==
  { JObject([success |-> JBool(TRUE)]),
    JObject([success |-> JBool(TRUE), score |-> JNum(80)]),
    JObject([success |-> JBool(FALSE), score |-> JNum(50)]),
    JObject([feedback |-> JStr("fine")]),
    JObject([success |-> JStr("false")]),
    JArray(<<JBool(TRUE)>>),
    JBool(TRUE) }
Tokens == {WS, FenceJson, Fence, Prose} \cup {JsonText(v) : v \in JsonValues}
TextsUpTo(n) == UNION {[1..k -> Tokens] : k \in 0..n}
Chats ==
  {[kind |-> "raise"]}
    \cup {[kind |-> k, content |-> c] : k \in {"awaitable", "plain"},
                                        c \in TextsUpTo(MaxTokens)}

\* ------------------------------------------------- calls of pure functions
PureInit ==
  /\ PureIdle
  /\ CmdIdle
  /\ ParserIdle
  /\ ThreadsIdle
  /\ CliIdle

\* one call from entry to return
Applied(op, args, ret) ==
  /\ pcall.op = "none"
  /\ pcall' = [op |-> op, args |-> args]
  /\ pret' = ret
  /\ UNCHANGED <<parserVars, threadVars, cliVars, cmdVars>>

ReviewCodeWithAi(chat) == Applied("review_code_with_ai", chat, review_code_with_ai(chat))

\* ------------------------------------------------------------------ prompt
(***************************************************************************)
(* Model of tandem.build_coding_prompt.  The prompt is the sequence of the *)
(* lines that are joined with "\n"; a line is the sequence of the pieces   *)
(* of its f-string.  A skill level is counted in tenths, so 30 is 3.0; the *)
(* comparisons of the code are exact on floats as they are here.  A line   *)
(* <<"fence">> stands for the three backquotes.                            *)
(***************************************************************************)

DefaultSkillLevel == 0
DefaultObjectiveIndex == 0

IsBeginnerInclusive(skill_level) == skill_level <= 30
\* line 234
IsBeginner(skill_level) == skill_level < 30
\* line 243
IsIntermediate(skill_level) == skill_level < 70

\* lines 233-262
Scaffolding(skill_level) ==
  <<<<"# Scaffolding Level">>>>
  \o (IF IsBeginner(skill_level)
        THEN << <<"User skill level: BEGINNER">>,
                <<"Provide DETAILED scaffolding:">>,
                <<"- Write comprehensive foundational code">>,
                <<"- Include detailed TODO comments with step-by-step hints">>,
                <<"- Provide code snippets or examples in the TODO comment">>,
                <<"- Break down complex tasks into smaller, manageable steps">>,
                <<"- Add inline comments explaining key concepts">> >>
      ELSE IF IsIntermediate(skill_level)
        THEN << <<"User skill level: INTERMEDIATE">>,
                <<"Provide GOAL-ORIENTED scaffolding:">>,
                <<"- Write solid foundational code structure">>,
                <<"- Include clear TODO comments describing the goal">>,
                <<"- Provide hints about the approach, but not full implementations">>,
                <<"- Let the user figure out implementation details">>,
                <<"- Add comments only for non-obvious design decisions">> >>
        ELSE << <<"User skill level: ADVANCED">>,
                <<"Provide CONCEPTUAL scaffolding:">>,
                <<"- Write minimal foundational code (interfaces, types)">>,
                <<"- Include high-level TODO comments describing the concept">>,
                <<"- Focus on architecture and design patterns">>,
                <<"- Let the user implement most of the functionality">>,
                <<"- Assume the user understands implementation details">> >>)

\* str(i) for the numbers of a short list
NumberText(i) == <<"1", "2", "3", "4">>[i]

\* lines 200-205: the objectives, the chosen one marked
ObjectiveLines(objectives, objective_index) ==
  [i \in 1..Len(objectives) |->
     <<IF i - 1 = objective_index THEN "->" ELSE " ", " ", NumberText(i), ". ",
       objectives[i]>>]

build_coding_prompt(context, target_file, file_content, objective_index, skill_level) ==
  LET objective == IF objective_index < Len(context.current_objectives)
                     THEN Some(context.current_objectives[objective_index + 1])
                     ELSE NoneArg
  IN << <<"You are CodeTandem">>, <<"">>,
        <<"# Current Learning Module">>,
        <<"Module: ", context.current_module.title>>,
        <<"Module ID: ", context.current_module_id>>, <<"">> >>
     \o (IF ~objective.isNone /\ objective.v # ""
           THEN << <<"# Current Learning Objective">>, <<objective.v>>, <<"">> >>
           ELSE <<>>)
     \o (IF context.current_objectives # <<>>
           THEN <<<<"# All Module Objectives">>>>
                \o ObjectiveLines(context.current_objectives, objective_index)
                \o <<<<"">>>>
           ELSE <<>>)
     \o (IF ~target_file.isNone
           THEN << <<"# Target File">>, <<"File: ", target_file.v>>, <<"">> >>
                \o (IF ~file_content.isNone
                      THEN << <<"# Current File Content">>, <<"fence">>,
                              <<IF file_content.v # "" THEN file_content.v
                                                      ELSE "# Empty file">>,
                              <<"fence">>, <<"">> >>
                      ELSE <<>>)
           ELSE <<>>)
     \o << <<"# Your Task">>, <<"Write foundational code that:">>,
           <<"1. Implements the basic structure needed for the learning objective">>,
           <<"2. Includes a clear TODO comment for the user to complete">>,
           <<"3. Leaves the most educationally valuable part for the user to implement">>,
           <<"">> >>
     \o Scaffolding(skill_level)
     \o << <<"">>, <<"Format your response as JSON with this structure:">>,
           <<"{ file_path, code, todo_line, todo_task, explanation }">>, <<"">>,
           <<"The TODO comment should be formatted as:">>,
           <<"// TODO: [", context.current_module_id, "] <task description>">> >>

\* ---------------------------------------------------------- prompt: inputs
\* tandem.ProjectContext
ProjectContext(module) ==
  [ current_module |-> module, current_module_id |-> module.id,
    current_objectives |-> module.objectives ]
Contexts ==
  { ProjectContext(Module("module_1", "Basics", <<>>)),
    ProjectContext(Module("module_2", "Loops", <<"Write a loop", "Nest loops">>)) }

\* skill levels from -0.5 up, in tenths
SkillLevels == (0 - 5)..MaxSkill

PromptArgs ==
  { [context |-> c, target_file |-> f, file_content |-> fc,
     objective_index |-> DefaultObjectiveIndex, skill_level |-> Some(s)] :
      c \in Contexts, f \in {NoneArg, Some("main.py")}, fc \in {NoneArg, Some("")},
      s \in SkillLevels }

BuildCodingPrompt(a) ==
  Applied("build_coding_prompt", a,
          Returns(build_coding_prompt(a.context, a.target_file, a.file_content,
                                      a.objective_index, a.skill_level.v)))

\* the call that leaves skill_level to its default
BuildCodingPromptDefault(c) ==
  Applied("build_coding_prompt",
          [context |-> c, target_file |-> NoneArg, file_content |-> NoneArg,
           objective_index |-> DefaultObjectiveIndex, skill_level |-> NoneArg],
          Returns(build_coding_prompt(c, NoneArg, NoneArg, DefaultObjectiveIndex,
                                      DefaultSkillLevel)))

\* -------------------------------------------------------------- curriculum
(***************************************************************************)
(* Model of curriculum.CurriculumParser.parse.  The content is a string as *)
(* in the parser model; the id of the n-th module, f"module_{n}", is the   *)
(* pair of the prefix and the number.                                      *)
(***************************************************************************)

\* str.split("\n"): one more piece than there are line feeds
RECURSIVE SplitNL(_)
SplitNL(s) ==
  LET brk == {i \in 1..Len(s) : s[i] = NL}
  IN IF brk = {} THEN <<s>>
     ELSE LET k == CHOOSE i \in brk : \A j \in brk : i <= j
          IN <<SubSeq(s, 1, k - 1)>> \o SplitNL(SubSeq(s, k + 1, Len(s)))

\* str.rstrip()
RECURSIVE RStrip(_)
RStrip(s) ==
  IF s # <<>> /\ IsSpace(s[Len(s)]) THEN RStrip(SubSeq(s, 1, Len(s) - 1)) ELSE s

\* str.startswith(prefix)
StartsWithStr(s, prefix) ==
  Len(s) >= Len(prefix) /\ SubSeq(s, 1, Len(prefix)) = prefix

ModuleIdOf(module_counter) == <<"module_", module_counter>>

\* the state of the loop before the first line
ParseStart == [modules |-> <<>>, current_module |-> NoneArg, module_counter |-> 1]

\* lines 50-77: one pass of the loop
ParseLine(st, raw) ==
  LET line == RStrip(raw)
  IN IF line = <<>> THEN st
     ELSE IF StartsWithStr(line, <<"#", " ">>)
       THEN [ modules |-> IF st.current_module.isNone THEN st.modules
                          ELSE Append(st.modules, st.current_module.v),
              current_module |->
                Some(Module(ModuleIdOf(st.module_counter),
                            Strip(SubSeq(line, 3, Len(line))), <<>>)),
              module_counter |-> st.module_counter + 1 ]
     ELSE IF StartsWithStr(line, <<"#", "#", " ">>) THEN st
     ELSE IF StartsWithStr(line, <<"-", " ">>) \/ StartsWithStr(line, <<"*", " ">>)
       THEN IF st.current_module.isNone THEN st
            ELSE LET objective == Strip(SubSeq(line, 3, Len(line)))
                 IN IF objective = <<>> THEN st
                    ELSE [st EXCEPT !.current_module.v.objectives = Append(@, objective)]
     ELSE st

RECURSIVE ParseLines(_, _)
ParseLines(st, ls) ==
  IF ls = <<>> THEN st ELSE ParseLines(ParseLine(st, Head(ls)), Tail(ls))

\* CurriculumParser.parse
parse(content) ==
  LET st == ParseLines(ParseStart, SplitNL(content))
  IN IF st.current_module.isNone THEN st.modules
     ELSE Append(st.modules, st.current_module.v)

\* ------------------------------------------------------ curriculum: inputs
CurriculumLines ==
  { <<"#", " ", "A">>,
    <<"#", " ", "B", " ">>,
    <<"#", " ">>,
    <<"#", "#", " ", "S">>,
    <<"-", " ", "x">>,
    <<"*", " ", " ", "y", " ">>,
    <<"-", " ", " ">>,
    <<"t">>,
    <<>> }
Curricula ==
  { JoinLines(ls) : ls \in UNION {[1..n -> CurriculumLines] : n \in 1..MaxCurriculumLines} }

Parse(content) == Applied("parse", content, Returns(parse(content)))

\* one call is made, with any of the inputs
ReviewCall == pcall.op = "none" /\ \E chat \in Chats : ReviewCodeWithAi(chat)
PromptCall == pcall.op = "none" /\ \E a \in PromptArgs : BuildCodingPrompt(a)
PromptDefaultCall == pcall.op = "none" /\ \E c \in Contexts : BuildCodingPromptDefault(c)
ParseCall == pcall.op = "none" /\ \E content \in Curricula : Parse(content)

PureNext ==
  \/ ReviewCall
  \/ PromptCall
  \/ PromptDefaultCall
  \/ ParseCall

SpecPure == PureInit /\ [][PureNext]_vars

\* ---------------------------------------------------------------- commands
(***************************************************************************)
(* Model of the commands test, hint and set-level, which work on the file  *)
(* .taskmaster/state.json of the working directory, and of next, which     *)
(* like submit works on codetandem.state.json of the project.  Each run of *)
(* a command is one step; cmd records how the run ended:                   *)
(*   done       the command reached its last line                          *)
(*   not_found  it printed that the module or task is missing, returned    *)
(*   caught     FileNotFoundError or ValueError was caught and printed     *)
(*   exit0, exit1  typer.Exit with that code                               *)
(*   raised     another exception left the command                         *)
(***************************************************************************)

\* the run of a command: the file it leaves and how it ended
Ended(f, end) == [file |-> f, wrote |-> FALSE, end |-> end]

\* commands/test.py, main: the challenge for the current module is written to
\* module_test.py and the flag is stored
test_main(f, mf, provider, now) ==
  LET state == load_state(f)
      modules == load_modules(mf)
  IN IF state.kind = "raise" THEN Ended(f, "caught")
     ELSE IF modules.kind = "raise" THEN Ended(f, "caught")
     ELSE IF ~HasModule(modules.value, state.value["current_module_id"])
       THEN Ended(f, "not_found")
     ELSE IF provider = "unconfigured" THEN Ended(f, "caught")
     ELSE IF provider = "error" THEN Ended(f, "raised")
     ELSE [ file |-> update_state(f, [NoUpdate EXCEPT !.assessment_pending = Some(TRUE)],
                                  now).file,
            wrote |-> TRUE, end |-> "done" ]

\* taskmaster_integration.TaskmasterTask
TaskmasterTask(id, title) == [id |-> id, title |-> title]

\* taskmaster_integration.TaskmasterParser.parse_tasks_json: the tasks of
\* {"tasks": [...]} or of [...]; every task needs an id
parse_tasks_json(tf) ==
  IF ~tf.exists THEN Raises("FileNotFoundError", "file_path")
  ELSE IF tf.data.t \notin {"object", "array"} THEN Raises("ValueError", "structure")
  ELSE
    LET tasks_data == IF tf.data.t = "array" THEN tf.data.v
                      ELSE Get(tf.data.v, "tasks", <<>>)
    IN IF \E i \in 1..Len(tasks_data) : "id" \notin DOMAIN tasks_data[i]
         THEN Raises("ValueError", "id")
         ELSE Returns([i \in 1..Len(tasks_data) |->
                        TaskmasterTask(tasks_data[i]["id"],
                                       Get(tasks_data[i], "title", ""))])

\* state.get_hint_count
get_hint_count(state, module_id) == Get(Get(state, "hints", <<>>), module_id, 0)

\* commands/hint.py lines 38-43: the request that the prompt ends with
HintRequest(hint_count) ==
  IF hint_count = 0 THEN "general"
  ELSE IF hint_count = 1 THEN "more specific"
  ELSE "very detailed"

NextHintCountSame(hint_count) == hint_count
\* commands/hint.py line 52: the count that is stored after the response
NextHintCount(hint_count) == hint_count + 1

\* commands/hint.py, main: the run, and the request that was sent
hint_main(f, tf, provider, now) ==
  LET state == load_state(f)
      tasks == parse_tasks_json(tf)
      NoRequest(end) == [run |-> Ended(f, end), request |-> "none"]
  IN IF state.kind = "raise" THEN NoRequest("caught")
     ELSE
       LET module_id == state.value["current_module_id"]
           hint_count == get_hint_count(state.value, module_id)
       IN IF tasks.kind = "raise" THEN NoRequest("caught")
          ELSE IF ~HasModule(tasks.value, module_id) THEN NoRequest("not_found")
          ELSE IF provider = "unconfigured" THEN NoRequest("caught")
          ELSE IF provider = "error"
            THEN [run |-> Ended(f, "raised"), request |-> HintRequest(hint_count)]
          ELSE [ run |-> [ file |-> update_state(f,
                                      [NoUpdate EXCEPT !.hint_count =
                                          Some(NextHintCount(hint_count))], now).file,
                           wrote |-> FALSE, end |-> "done" ],
                 request |-> HintRequest(hint_count) ]

\* commands/set_level.py, main: only the three levels are stored; a missing
\* state file is reported, another error of update_state leaves the command
Levels == {"easy", "medium", "hard"}
set_level_main(f, level, now) ==
  IF level \notin Levels THEN Ended(f, "exit1")
  ELSE
    LET out == update_state(f, [NoUpdate EXCEPT !.difficulty_override = Some(level)], now)
    IN IF out.ret.kind = "return"
         THEN [file |-> out.file, wrote |-> FALSE, end |-> "done"]
         ELSE IF out.ret.exc = "FileNotFoundError" THEN Ended(f, "caught")
         ELSE Ended(f, "raised")

\* modules.get_module_by_id: the first module with this id
get_module_by_id(modules, module_id) ==
  modules[CHOOSE i \in 1..Len(modules) :
            /\ modules[i].id = module_id
            /\ \A j \in 1..(i - 1) : modules[j].id # module_id]

\* state.get_skill_score, in tenths as build_coding_prompt's skill levels
get_skill_score(state, module_id) == 10 * Get(state["skill_scores"], module_id, 0)

\* commands/next.py lines 69-72: the skill level of an override
OverrideLevels == ("easy" :> 20 @@ "medium" :> 50 @@ "hard" :> 80)

\* commands/next.py lines 65-82: an override that is not one of the three
\* levels gives the skill score, and so does an empty or missing one
SkillLevelOf(state, module_id) ==
  LET skill_score == get_skill_score(state, module_id)
      difficulty_override == Get(state, "difficulty_override", "")
  IN IF difficulty_override # ""
       THEN Get(OverrideLevels, difficulty_override, skill_score)
       ELSE skill_score

\* commands/next.py lines 44-118, with tandem.load_project_context and
\* tandem.generate_code_with_ai: the run up to the prompt that is sent
next_command(sf, mf, provider) ==
  LET modules == load_modules(mf)
      state == load_state(sf)
      NoPrompt(end) == [end |-> end, skill_level |-> NoneArg, prompt |-> <<>>]
  IN IF modules.kind = "raise" \/ state.kind = "raise" THEN NoPrompt("exit1")
     ELSE IF ~HasModule(modules.value, state.value["current_module_id"])
       THEN NoPrompt("exit1")
     ELSE
       LET context == ProjectContext(get_module_by_id(modules.value,
                                                      state.value["current_module_id"]))
           skill_level == SkillLevelOf(state.value, context.current_module_id)
       IN IF context.current_objectives = <<>> THEN NoPrompt("exit0")
          ELSE IF provider = "unconfigured" THEN NoPrompt("exit1")
          ELSE [ end |-> "prompted", skill_level |-> Some(skill_level),
                 prompt |-> build_coding_prompt(context, NoneArg, NoneArg, 0,
                                                skill_level) ]

\* ------------------------------------------------------ commands: machine
TaskmasterFiles == {Absent, OnDisk(FreshState), OnDisk(LaterState)}

\* a command has run in the working directory
CmdRan(name, out, info) ==
  /\ tmbefore' = tmfile
  /\ tmfile' = out.file
  /\ module_test' = (module_test \/ out.wrote)
  /\ cmd' = [name |-> name, end |-> out.end, info |-> info]
  /\ UNCHANGED <<modules_json, tasks_json, parserVars, threadVars, pureVars>>

\* codetandem test, before codetandem submit
TestCommand(provider) ==
  /\ cmd.name = "none"
  /\ sub_pc = "main"
  /\ CmdRan("test", test_main(tmfile, modules_json, provider, clock + 1), provider)
  /\ UNCHANGED <<given, cliVars>>

AssessmentInit ==
  /\ sfile \in SubmitStateFiles
  /\ sbefore = sfile
  /\ scall = NoCall
  /\ sret = NoReturn
  /\ streak = NoStreak
  /\ clock = 0
  /\ sub_pc = "main"
  /\ sub_opts = NoOptions
  /\ sub_seen = NothingSeen
  /\ sub_trace = <<>>
  /\ tmfile \in TaskmasterFiles
  /\ tmbefore = tmfile
  /\ module_test \in BOOLEAN
  /\ modules_json \in ModulesFiles
  /\ tasks_json = Absent
  /\ cmd = [name |-> "none"]
  /\ given = <<>>
  /\ ParserIdle
  /\ ThreadsIdle
  /\ PureIdle

AssessmentNext ==
  \/ \E provider \in Providers : TestCommand(provider)
  \/ SubmitNext

SpecAssessment == AssessmentInit /\ [][AssessmentNext]_vars

\* a state in which hints were given: one for module_1, two for module_2
HintedState == Put(LaterState, "hints", ("module_1" :> 1 @@ "module_2" :> 2))
HintFiles == TaskmasterFiles \cup {OnDisk(HintedState)}

\* .taskmaster/tasks/tasks.json
TaskData(id, title) == [id |-> id, title |-> title]
TasksFiles ==
  { Absent,
    OnDisk(JNum(1)),
    OnDisk(JObject([version |-> "1.0"])),
    OnDisk(JObject([tasks |-> <<TaskData("module_1", "Basics")>>])),
    OnDisk(JArray(<<TaskData("module_1", "Basics"), TaskData("module_2", "Loops")>>)),
    OnDisk(JArray(<<TaskData("module_1", "Basics"), [title |-> "Loops"]>>)) }

\* the module that the state file names, "" when the file cannot be loaded
CurrentModuleOf(f) ==
  IF load_state(f).kind = "return" THEN f.data["current_module_id"] ELSE ""

HintInit ==
  /\ tmfile \in HintFiles
  /\ tmbefore = tmfile
  /\ module_test = FALSE
  /\ modules_json = Absent
  /\ tasks_json \in TasksFiles
  /\ cmd = [name |-> "none"]
  /\ given = [m \in ModuleIds |->
               IF tmfile.exists THEN get_hint_count(tmfile.data, m) ELSE 0]
  /\ CliIdle
  /\ ParserIdle
  /\ ThreadsIdle
  /\ PureIdle

\* a run in the working directory reads the clock once
Tick ==
  /\ clock < MaxCalls
  /\ clock' = clock + 1
  /\ UNCHANGED <<sfile, sbefore, scall, sret, streak, submitVars>>

\* codetandem hint
HintCommand(provider) ==
  LET out == hint_main(tmfile, tasks_json, provider, clock + 1)
      module_id == CurrentModuleOf(tmfile)
  IN /\ Tick
     /\ CmdRan("hint", out.run,
               [module |-> module_id, request |-> out.request, provider |-> provider])
     /\ given' = IF out.run.end = "done"
                   THEN [given EXCEPT ![module_id] = @ + 1]
                   ELSE given

\* the learner moves to another module: update_state(current_module_id=...)
SwitchModule(module_id) ==
  /\ Tick
  /\ CmdRan("switch",
            [ file |-> update_state(tmfile, [NoUpdate EXCEPT !.current_module_id =
                                                Some(module_id)], clock + 1).file,
              wrote |-> FALSE, end |-> "done" ],
            module_id)
  /\ UNCHANGED given

HintNext ==
  \/ \E provider \in Providers : HintCommand(provider)
  \/ \E module_id \in ModuleIds : SwitchModule(module_id)

SpecHint == HintInit /\ [][HintNext]_vars

\* project state files with and without an override, and the modules.json
\* of a project whose modules have objectives
OverrideStates ==
  { FreshState, LaterState, Put(LaterState, "difficulty_override", "hard"),
    Put(FreshState, "difficulty_override", "expert"),
    Put(LaterState, "difficulty_override", "") }
ProjectModulesFiles ==
  { OnDisk([modules |-> <<[id |-> "module_1", title |-> "Basics",
                           objectives |-> <<"Print a line">>],
                          [id |-> "module_2", title |-> "Loops",
                           objectives |-> <<"Write a loop", "Nest loops">>]>>]),
    OnDisk([modules |-> <<ModuleData("module_1", "Basics"),
                          ModuleData("module_2", "Loops")>>]) }
LevelArguments == Levels \cup {"expert", ""}

LevelInit ==
  /\ sfile \in {Absent} \cup {OnDisk(s) : s \in OverrideStates}
  /\ sbefore = sfile
  /\ scall = NoCall
  /\ sret = NoReturn
  /\ streak = NoStreak
  /\ clock = 0
  /\ SubmitIdle
  /\ tmfile \in TaskmasterFiles \cup {OnDisk(Without(FreshState, "skill_scores"))}
  /\ tmbefore = tmfile
  /\ module_test = FALSE
  /\ modules_json \in ProjectModulesFiles
  /\ tasks_json = Absent
  /\ cmd = [name |-> "none"]
  /\ given = <<>>
  /\ ParserIdle
  /\ ThreadsIdle
  /\ PureIdle

\* codetandem set-level LEVEL
SetLevelCommand(level) ==
  /\ Tick
  /\ CmdRan("set-level", set_level_main(tmfile, level, clock + 1), level)
  /\ UNCHANGED given

\* codetandem next, in the project of the working directory
NextCommand(provider) ==
  LET out == next_command(sfile, modules_json, provider)
  IN /\ Tick
     /\ CmdRan("next", Ended(tmfile, out.end),
               [skill_level |-> out.skill_level, prompt |-> out.prompt])
     /\ UNCHANGED given

LevelNext ==
  \/ \E level \in LevelArguments : SetLevelCommand(level)
  \/ \E provider \in Providers : NextCommand(provider)

SpecLevel == LevelInit /\ [][LevelNext]_vars

\* ------------------------------------------------------------------ claims
\* what the claims say, stated on the text's lines and the scanned markers

Min(S) == CHOOSE n \in S : \A m \in S : n <= m
Max(S) == CHOOSE n \in S : \A m \in S : n >= m

\* a line that is empty or all whitespace
Blank(line) == \A k \in 1..Len(line) : line[k] \in {" ", "\t"}

MarkerLineNumbers == {todos[k][1] : k \in 1..Len(todos)}
LaterMarkers == {n \in MarkerLineNumbers : n > target_todo[1]}

\* the end of the selected marker's block before trimming
RawEnd == IF LaterMarkers = {} THEN Len(lines) ELSE Min(LaterMarkers) - 1

Returned == pc = "done" /\ result.kind = "CodeExtraction"

\* str.rstrip of whole blank lines: cut the string at its last newline while
\* what follows that newline is blank
RECURSIVE StripTrailingBlankLines(_)
StripTrailingBlankLines(s) ==
  LET brk == {i \in 1..Len(s) : s[i] = NL}
  IN  IF brk = {} THEN (IF Blank(s) THEN <<>> ELSE s)
      ELSE IF Blank(SubSeq(s, Max(brk) + 1, Len(s)))
           THEN StripTrailingBlankLines(SubSeq(s, 1, Max(brk) - 1))
           ELSE s

\* C1: before trailing blanks are trimmed, the collected lines are exactly the
\* text's lines todo_line+1 .. end, where end is the line before the nearest
\* later marker, or the last line of the text when no marker follows; neither
\* the marker line nor a line at or after the next marker is among them.
C1_CollectedLines ==
  pc = "collected" =>
    /\ end_line = RawEnd
    /\ code_lines = SubSeq(lines, target_todo[1] + 1, RawEnd)

C1_Witness ==
  /\ pc = "collected"
  /\ LaterMarkers # {}
  /\ code_lines # <<>>

\* C2: joining the text's lines [start_line, end_line] of a returned block with
\* newlines and stripping trailing blank lines gives the returned code.
C2_RoundTrip ==
  Returned =>
    StripTrailingBlankLines(JoinLines(SubSeq(lines, result.start_line, result.end_line)))
      = result.code

C2_Witness ==
  /\ Returned
  /\ result.code # <<>>
  /\ result.end_line < RawEnd

\* C3: trimming removes no non-blank line: every non-blank line i of the
\* untrimmed block has i <= end_line and is still the line of the returned
\* code at its place.
C3_TrimKeepsContent ==
  Returned =>
    \A i \in (target_todo[1] + 1)..RawEnd :
       ~Blank(lines[i]) =>
         /\ result.end_line >= i
         /\ LET cl == splitlines(result.code)
                k  == i - target_todo[1]
            IN  k <= Len(cl) /\ cl[k] = lines[i]

C3_Witness ==
  /\ Returned
  /\ result.end_line < RawEnd
  /\ \E i \in (target_todo[1] + 1)..RawEnd : ~Blank(lines[i])

\* C4: a returned block has start_line = todo_line + 1 and
\* end_line >= start_line - 1, and the trimming loop never takes end_line
\* below the marker's line.
C4_LineRange ==
  /\ Returned =>
       /\ result.todo_line = target_todo[1]
       /\ result.start_line = result.todo_line + 1
       /\ result.end_line >= result.start_line - 1
  /\ pc \in {"collected", "trimming"} => end_line >= target_todo[1]

\* an all-blank block trimmed down to nothing
C4_Witness ==
  /\ Returned
  /\ result.end_line = result.start_line - 1
  /\ RawEnd > result.end_line

\* needle is a substring of label, letter case ignored
ContainsIgnoringCase(label, needle) ==
  \E i \in 0..(Len(label) - Len(needle)) :
     \A j \in 1..Len(needle) : Lower(label[i + j]) = Lower(needle[j])

\* the block of the k-th scanned marker: the lines after it up to the next
\* marker or the end of the text, without the trailing blank ones
ExpectedBlock(k) ==
  LET m    == todos[k][1]
      raw  == IF k < Len(todos) THEN todos[k + 1][1] - 1 ELSE Len(lines)
      last == Max({m} \cup {i \in (m + 1)..raw : ~Blank(lines[i])})
  IN  CodeExtraction(m, todos[k][2], JoinLines(SubSeq(lines, m + 1, last)), m + 1, last)

ExtractDone == pc = "done" /\ call \in {"extract", "extract_default"}

\* C5: with a non-empty needle the selected marker is the one with the
\* smallest line number whose label contains the needle, letter case ignored;
\* the result is None when no label contains it.
C5_FirstLabelMatch ==
  (ExtractDone /\ Truthy(todo_text)) =>
    LET hits == {k \in 1..Len(todos) : ContainsIgnoringCase(todos[k][2], todo_text.s)}
    IN  IF hits = {} THEN result = None
        ELSE /\ result.kind = "CodeExtraction"
             /\ result.todo_line = Min({todos[k][1] : k \in hits})
             /\ result.todo_text = todos[Min(hits)][2]

\* two labels contain the needle, and a marker before them does not
C5_Witness ==
  /\ Returned
  /\ Truthy(todo_text)
  /\ Cardinality({k \in 1..Len(todos) : ContainsIgnoringCase(todos[k][2], todo_text.s)}) >= 2
  /\ result.todo_line > todos[1][1]

C5_NoMatchWitness ==
  /\ ExtractDone
  /\ Truthy(todo_text)
  /\ todos # <<>>
  /\ result = None

\* C6: with N >= 1 markers and no needle, index i gives the block of the
\* marker at scan position i when 0 <= i < N, of the marker at position N + i
\* when -N <= i < 0, and None for every other i.
C6_IndexSelection ==
  (ExtractDone /\ ~Truthy(todo_text) /\ Len(todos) >= 1) =>
    LET N == Len(todos)
        i == todo_index
    IN  /\ (0 <= i /\ i < N) => result = ExpectedBlock(i + 1)
        /\ (-N <= i /\ i < 0) => result = ExpectedBlock(N + i + 1)
        /\ (i >= N \/ i < -N) => result = None

\* a negative index other than -1 selects a marker that is not the last
C6_Witness ==
  /\ Returned
  /\ ~Truthy(todo_text)
  /\ todo_index < -1
  /\ result.todo_line < todos[Len(todos)][1]

C6_OutOfRangeWitness ==
  /\ ExtractDone
  /\ ~Truthy(todo_text)
  /\ Len(todos) >= 1
  /\ (todo_index >= Len(todos) \/ todo_index < -Len(todos))
  /\ result = None

\* C7: with N markers, the call without a selector, the call with index -1
\* and the call with index N-1 all return the block of the last marker
\* (None when N = 0).
C7_LastMarkerSymmetry ==
  (/\ pc = "done"
   /\ file.exists /\ file.readable
   /\ \/ call = "extract_default"
      \/ call = "extract" /\ todo_text = NoneStr /\ todo_index \in {-1, Len(todos) - 1})
  => result = (IF todos = <<>> THEN None ELSE ExpectedBlock(Len(todos)))

\* the call without a selector on a text with several markers
C7_Witness ==
  /\ Returned
  /\ call = "extract_default"
  /\ Len(todos) >= 2
  /\ result.todo_line = todos[Len(todos)][1]

C7_IndexWitness ==
  /\ Returned
  /\ call = "extract"
  /\ todo_text = NoneStr
  /\ Len(todos) >= 2
  /\ todo_index = Len(todos) - 1

\* `//` at p, optional whitespace, and the word TODO in any letter case at q
IntroducerWordAt(line, p, q) ==
  /\ p + 1 <= Len(line)
  /\ line[p] = "/" /\ line[p + 1] = "/"
  /\ q >= p + 2 /\ q + 3 <= Len(line)
  /\ \A j \in (p + 2)..(q - 1) : line[j] \in {" ", "\t"}
  /\ Lower(line[q]) = "t" /\ Lower(line[q + 1]) = "o"
  /\ Lower(line[q + 2]) = "d" /\ Lower(line[q + 3]) = "o"

IntroducerAt(line, p) == \E q \in 1..Len(line) : IntroducerWordAt(line, p, q)

HasIntroducer(line) == \E p \in 1..Len(line) : IntroducerAt(line, p)

\* C8: for a text without any occurrence of the marker pattern,
\* extract_todo_code returns None whatever the needle and the index.
C8_NoMarkersNotFound ==
  (ExtractDone /\ \A i \in 1..Len(lines) : ~HasIntroducer(lines[i])) => result = None

\* a text of several lines, one of them mentioning todo outside a `//` comment
C8_Witness ==
  /\ ExtractDone
  /\ Len(lines) >= 2
  /\ \E i \in 1..Len(lines) : ~Blank(lines[i])
  /\ \A i \in 1..Len(lines) : ~HasIntroducer(lines[i])
  /\ Truthy(todo_text)
  /\ result = None

\* the label the recognition rule gives a line with an introducer: what
\* follows the first introducer, its optional colon and whitespace, stripped
ClaimedLabel(line) ==
  LET p  == Min({i \in 1..Len(line) : IntroducerAt(line, i)})
      q  == CHOOSE j \in 1..Len(line) : IntroducerWordAt(line, p, j)
      c  == IF q + 4 <= Len(line) /\ line[q + 4] = ":" THEN q + 5 ELSE q + 4
      r  == {j \in c..Len(line) : line[j] \notin {" ", "\t"}}
  IN  IF r = {} THEN <<>> ELSE SubSeq(line, Min(r), Max(r))

\* ms reports line i of the text as a marker
Reports(ms, i) == \E k \in 1..Len(ms) : ms[k][1] = i

RecognisedBy(ms) ==
  \A i \in 1..Len(lines) :
     /\ Reports(ms, i) <=> HasIntroducer(lines[i])
     /\ \A k \in 1..Len(ms) : ms[k][1] = i => ms[k][2] = ClaimedLabel(lines[i])

\* C9: a line is reported as a marker if and only if it contains `//`,
\* optional whitespace, TODO in any letter case, an optional colon and optional
\* whitespace; the label is the rest of the line after that introducer,
\* stripped, and may be empty.
C9_MarkerRecognition ==
  /\ pc = "scanned" => RecognisedBy(found)
  /\ ExtractDone => RecognisedBy(todos)

\* the pattern matches a line: an introducer with at least one character
\* after the word TODO
PatternMatches(line) ==
  \E p \in 1..Len(line), q \in 1..Len(line) :
     IntroducerWordAt(line, p, q) /\ q + 4 <= Len(line)

\* C10: find_all_todos returns one (line_number, label) pair for each
\* matching line and none for any other line, the line numbers counted from 1
\* and strictly increasing along the sequence.
C10_ScanOrder ==
  pc = "scanned" =>
    /\ \A k \in 1..Len(found) : found[k][1] \in 1..Len(lines)
    /\ \A k \in 1..(Len(found) - 1) : found[k][1] < found[k + 1][1]
    /\ \A i \in 1..Len(lines) :
         Cardinality({k \in 1..Len(found) : found[k][1] = i})
           = (IF PatternMatches(lines[i]) THEN 1 ELSE 0)

\* two markers with a line between them that is not one
C10_Witness ==
  /\ pc = "scanned"
  /\ Len(found) = 2
  /\ found[1][1] = 1
  /\ found[2][1] = 3

\* the last line of a string: what follows its last newline
LastLineOf(s) ==
  LET brk == {i \in 1..Len(s) : s[i] = NL}
  IN  IF brk = {} THEN s ELSE SubSeq(s, Max(brk) + 1, Len(s))

\* the number of blank lines at the end of the selected marker's untrimmed block
TrailingBlanks ==
  Max({n \in 0..(RawEnd - target_todo[1]) :
         \A i \in (RawEnd - n + 1)..RawEnd : Blank(lines[i])})

\* C11: the returned code is empty or ends with a non-blank line, and end_line
\* is the untrimmed end minus the number of trailing blank lines removed.
C11_TrimComplete ==
  Returned =>
    /\ result.code = <<>> \/ ~Blank(LastLineOf(result.code))
    /\ result.end_line = RawEnd - TrailingBlanks

\* two trailing blank lines were removed
C11_Witness ==
  /\ Returned
  /\ TrailingBlanks = 2
  /\ result.end_line + 2 = RawEnd

\* C12 as stated: when the body is empty and no line was trimmed, start_line
\* and end_line both equal todo_line + 1.
C12_EmptyRangeAsStated ==
  (Returned /\ result.code = <<>> /\ TrailingBlanks = 0) =>
    /\ result.start_line = result.todo_line + 1
    /\ result.end_line = result.todo_line + 1

\* C12 amended: when the selected marker is immediately followed by another
\* marker or by the end of the text (the body is empty and no line was
\* trimmed), start_line = todo_line + 1 and end_line = todo_line.
C12_EmptyRange ==
  (Returned /\ (RawEnd = target_todo[1] \/ (result.code = <<>> /\ TrailingBlanks = 0))) =>
    /\ result.code = <<>>
    /\ result.start_line = result.todo_line + 1
    /\ result.end_line = result.todo_line

\* the selected marker is immediately followed by another marker
C12_Witness ==
  /\ Returned
  /\ LaterMarkers # {}
  /\ RawEnd = target_todo[1]
  /\ result.code = <<>>

\* C13: when the selected marker is on the last line of the text the call
\* returns a block with empty code, start_line = todo_line + 1 (beyond the
\* last line) and end_line = todo_line.
C13_MarkerOnLastLine ==
  (ExtractDone /\ target_todo # NoTarget /\ target_todo[1] = Len(lines)) =>
    /\ result.kind = "CodeExtraction"
    /\ result.code = <<>>
    /\ result.todo_line = Len(lines)
    /\ result.start_line = Len(lines) + 1
    /\ result.end_line = Len(lines)

C13_Witness ==
  /\ Returned
  /\ Len(lines) >= 2
  /\ result.todo_line = Len(lines)

C13_OneLineWitness ==
  /\ Returned
  /\ Len(lines) = 1
  /\ result.start_line = 2
  /\ result.end_line = 1

\* a line with two or more introducers
SeveralIntroducers(line) ==
  Cardinality({p \in 1..Len(line) : IntroducerAt(line, p)}) >= 2

OneMarkerFirstWins(ms) ==
  \A i \in 1..Len(lines) :
     SeveralIntroducers(lines[i]) =>
       /\ Cardinality({k \in 1..Len(ms) : ms[k][1] = i}) = 1
       /\ \A k \in 1..Len(ms) :
            ms[k][1] = i => ms[k][2] = ClaimedLabel(lines[i]) /\ HasIntroducer(ms[k][2])

\* C14: a line with two or more introducers is reported as exactly one marker,
\* whose label is the stripped text after the leftmost introducer, the later
\* introducers included.
C14_FirstMatchWins ==
  /\ pc = "scanned" => OneMarkerFirstWins(found)
  /\ ExtractDone => OneMarkerFirstWins(todos)

C14_Witness ==
  /\ pc = "scanned"
  /\ \E k \in 1..Len(found) :
       SeveralIntroducers(lines[found[k][1]]) /\ HasIntroducer(found[k][2])

\* C15: whatever the input (a missing or unreadable file, an empty text, a
\* text without markers, any needle, any index), extract_todo_code returns a
\* block or None and find_all_todos returns a list; neither raises.
C15_NeverRaises ==
  /\ pc # "raised"
  /\ result.kind \in {"None", "CodeExtraction"}

\* what thread t's call returns when it runs alone
AloneResult(t) ==
  IF targs[t].call = "find" THEN FindAlone(disk[targs[t].path])
  ELSE ExtractAlone(disk[targs[t].path], targs[t].todo_text, targs[t].todo_index)

EachCallAsAlone == \A t \in Threads : tpc[t] = "done" => tresult[t] = AloneResult(t)

\* C16: with the calls of several threads interleaved in any order, on the
\* same text or on different ones, each call returns what it returns when run
\* alone on its own text and selector, and no call changes a text.
C16_ThreadsIndependent == [](EachCallAsAlone) /\ [][disk' = disk]_vars

\* two calls on the same text that return different blocks
C16_Witness ==
  /\ \A t \in Threads : tpc[t] = "done" /\ tresult[t].kind = "CodeExtraction"
  /\ targs["t1"].path = targs["t2"].path
  /\ tresult["t1"] # tresult["t2"]

\* the last call was increment_skill_score and it returned
IncrementReturned == scall.op = "increment_skill_score" /\ sret.kind = "return"

\* the score of module m in the file f, 0 when it has none
ScoreIn(f, m) == IF m \in DOMAIN f.data["skill_scores"] THEN f.data["skill_scores"][m] ELSE 0

C18_NewModuleWitness ==
  /\ IncrementReturned
  /\ scall.args.module_id \notin DOMAIN sbefore.data["skill_scores"]
  /\ sfile.data["skill_scores"][scall.args.module_id] = scall.args.points

\* the last call was one of the three functions that read the state file
ReadStateCall == scall.op \in {"load_state", "update_state", "increment_skill_score"}

\* the file f holds an object that lacks one of the three required fields
LacksRequired(f) ==
  /\ f.exists
  /\ \E k \in {"current_module_id", "skill_scores", "completed_modules"} :
       k \notin DOMAIN f.data

\* C19: load_state raises FileNotFoundError when the state file is absent and
\* ValueError when one of current_module_id, skill_scores, completed_modules
\* is missing; update_state and increment_skill_score on such a file end with
\* the same error and the file on disk is as it was before the call.
C19_LoadErrors ==
  ReadStateCall =>
    /\ ~sbefore.exists =>
         /\ sret.kind = "raise" /\ sret.exc = "FileNotFoundError"
         /\ sfile = sbefore
    /\ LacksRequired(sbefore) =>
         /\ sret.kind = "raise" /\ sret.exc = "ValueError"
         /\ sret.what \notin DOMAIN sbefore.data
         /\ sfile = sbefore

\* update_state with a new score on a file without completed_modules
C19_Witness ==
  /\ scall.op = "update_state"
  /\ ~scall.args.skill_score.isNone
  /\ sbefore.exists
  /\ "completed_modules" \notin DOMAIN sbefore.data
  /\ sret.kind = "raise"

\* increment_skill_score on an absent file
C19_AbsentWitness ==
  /\ scall.op = "increment_skill_score"
  /\ ~sbefore.exists
  /\ sret.kind = "raise"

\* the entries that the modules.json of the call lists
ModulesListed(a) ==
  IF a.modules_path.exists /\ "modules" \in DOMAIN a.modules_path.data
    THEN a.modules_path.data["modules"]
    ELSE <<>>

\* C20: the state that generate_initial_state writes has the id of the first
\* module of modules.json as current_module_id, a score for exactly that
\* module, equal to the initial score, no completed modules, and the number
\* of modules as metadata.total_modules; when modules.json lists no module or
\* the project directory does not exist the call raises and the state file is
\* as it was (none is written).
C20_InitialState ==
  scall.op = "generate_initial_state" =>
    LET a == scall.args
        listed == ModulesListed(a)
    IN /\ sret.kind = "return" =>
            /\ sfile.exists
            /\ sfile.data = sret.value
            /\ listed # <<>>
            /\ sfile.data["current_module_id"] = listed[1]["id"]
            /\ DOMAIN sfile.data["skill_scores"] = {listed[1]["id"]}
            /\ sfile.data["skill_scores"][listed[1]["id"]] = a.initial_skill_score
            /\ sfile.data["completed_modules"] = <<>>
            /\ sfile.data["metadata"]["total_modules"] = Len(listed)
       /\ (a.modules_path.exists /\ listed = <<>>) \/ a.project_path.kind = "missing" =>
            /\ sret.kind = "raise"
            /\ sfile = sbefore

\* a state written from two modules with a non-zero initial score
C20_Witness ==
  /\ scall.op = "generate_initial_state"
  /\ sret.kind = "return"
  /\ Len(ModulesListed(scall.args)) = 2
  /\ scall.args.initial_skill_score > 0
  /\ sfile # sbefore

\* the project directory is missing and no state file comes into being
C20_MissingProjectWitness ==
  /\ scall.op = "generate_initial_state"
  /\ ModulesListed(scall.args) # <<>>
  /\ scall.args.project_path.kind = "missing"
  /\ sret.kind = "raise"
  /\ ~sfile.exists

\* modules.json lists no module
C20_NoModulesWitness ==
  /\ scall.op = "generate_initial_state"
  /\ scall.args.modules_path.exists
  /\ "modules" \in DOMAIN scall.args.modules_path.data
  /\ ModulesListed(scall.args) = <<>>
  /\ sret.kind = "raise"

\* the order of the steps of a run, with or without the linter
StepOrder(skip_lint) ==
  IF skip_lint THEN <<"extract", "review", "score">>
               ELSE <<"extract", "lint", "review", "score">>

IsPrefix(s, t) == Len(s) <= Len(t) /\ \A i \in 1..Len(s) : s[i] = t[i]

C17_ReviewFailedWitness ==
  /\ sub_pc = "exit1"
  /\ sub_seen.review = "fail"
  /\ sub_opts.skip_lint

\* a run that ended at the linter
C17_LintFailedWitness ==
  /\ sub_pc = "exit1"
  /\ sub_seen.lint = "failed"

\* the tokens of s are all in toks and at most one of them is a fence
Around(s, toks) ==
  /\ \A i \in 1..Len(s) : s[i].tok \in toks
  /\ Cardinality({i \in 1..Len(s) : s[i].tok # "ws"}) <= 1

\* the JSON values that the content is a text of: one JSON text, with white
\* space and at most one opening and one closing Markdown fence around it
Denoted(content) ==
  { content[i].value : i \in
      { j \in 1..Len(content) :
          /\ content[j].tok = "json"
          /\ Around(SubSeq(content, 1, j - 1), {"ws", "fence", "fence_json"})
          /\ Around(SubSeq(content, j + 1, Len(content)), {"ws", "fence"}) } }

IsTrue(x) == x.t = "bool" /\ x.v = TRUE
IsFalse(x) == x.t = "bool" /\ x.v = FALSE

\* C21: review_code_with_ai always returns a ReviewResult; its success is
\* true only if the provider call returned and the content is the text of a
\* JSON object whose success field is true; if the provider raises or the
\* content is not a JSON text, success is false and score is None.
C21_ReviewResult ==
  pcall.op = "review_code_with_ai" =>
    LET chat == pcall.args
        values == IF chat.kind = "raise" THEN {} ELSE Denoted(chat.content)
    IN /\ pret.kind = "return"
       /\ DOMAIN pret.value = {"success", "feedback", "score", "suggestions"}
       /\ IsTrue(pret.value.success) =>
            /\ chat.kind # "raise"
            /\ \E v \in values :
                 /\ v.t = "object"
                 /\ "success" \in DOMAIN v.v
                 /\ IsTrue(v.v["success"])
       /\ values = {} =>
            /\ IsFalse(pret.value.success)
            /\ pret.value.score.t = "null"

\* a fenced JSON object with success true, awaited and parsed
C21_Witness ==
  /\ pcall.op = "review_code_with_ai"
  /\ pcall.args.kind = "awaitable"
  /\ Len(pcall.args.content) = 3
  /\ pcall.args.content[1].tok = "fence_json"
  /\ IsTrue(pret.value.success)
  /\ pret.value.score.t = "num"

\* the provider raised
C21_RaisedWitness ==
  /\ pcall.op = "review_code_with_ai"
  /\ pcall.args.kind = "raise"
  /\ IsFalse(pret.value.success)

\* the content is prose
C21_ProseWitness ==
  /\ pcall.op = "review_code_with_ai"
  /\ pcall.args.kind = "awaitable"
  /\ pcall.args.content = <<Prose>>
  /\ IsFalse(pret.value.success)

\* the lines of the prompt that name a scaffolding level
LevelLines(prompt) ==
  { i \in 1..Len(prompt) :
      prompt[i] \in { <<"User skill level: BEGINNER">>,
                      <<"User skill level: INTERMEDIATE">>,
                      <<"User skill level: ADVANCED">> } }

\* C22: the prompt of build_coding_prompt names exactly one scaffolding
\* level: BEGINNER below 3.0, INTERMEDIATE from 3.0 and below 7.0, ADVANCED
\* from 7.0 on; without a skill level (default 0.0) it is BEGINNER.
C22_ScaffoldingLevel ==
  pcall.op = "build_coding_prompt" =>
    LET prompt == pret.value
        skill == pcall.args.skill_level
    IN /\ Cardinality(LevelLines(prompt)) = 1
       /\ \A i \in LevelLines(prompt) :
            prompt[i] =
              IF skill.isNone THEN <<"User skill level: BEGINNER">>
              ELSE IF skill.v < 30 THEN <<"User skill level: BEGINNER">>
              ELSE IF skill.v < 70 THEN <<"User skill level: INTERMEDIATE">>
              ELSE <<"User skill level: ADVANCED">>

\* skill level 3.0 exactly gives INTERMEDIATE
C22_Witness ==
  /\ pcall.op = "build_coding_prompt"
  /\ pcall.args.skill_level = Some(30)
  /\ \E i \in 1..Len(pret.value) : pret.value[i] = <<"User skill level: INTERMEDIATE">>

\* skill level 7.0 exactly gives ADVANCED
C22_AdvancedWitness ==
  /\ pcall.op = "build_coding_prompt"
  /\ pcall.args.skill_level = Some(70)
  /\ \E i \in 1..Len(pret.value) : pret.value[i] = <<"User skill level: ADVANCED">>

\* the default skill level gives BEGINNER
C22_DefaultWitness ==
  /\ pcall.op = "build_coding_prompt"
  /\ pcall.args.skill_level.isNone
  /\ \E i \in 1..Len(pret.value) : pret.value[i] = <<"User skill level: BEGINNER">>

\* the lines of the curriculum of the call
CurriculumOf(content) == SplitNL(content)

\* an H1 line starts with "# ", a list item with "- " or "* "
IsH1(line) == Len(line) >= 2 /\ line[1] = "#" /\ line[2] = " "
IsItem(line) == Len(line) >= 2 /\ line[1] \in {"-", "*"} /\ line[2] = " "

\* the text of a heading or of an item, without the white space around it
TextOf(line) == Strip(SubSeq(line, 3, Len(line)))

\* the line numbers of the H1 lines, and the k-th of them
H1Lines(ls) == {i \in 1..Len(ls) : IsH1(ls[i])}
NthH1(ls, k) ==
  CHOOSE i \in H1Lines(ls) : Cardinality({j \in H1Lines(ls) : j <= i}) = k

\* the items with text whose most recent H1 is the k-th, in their order
RECURSIVE ItemsFrom(_, _)
ItemsFrom(ls, i) ==
  IF i > Len(ls) \/ IsH1(ls[i]) THEN <<>>
  ELSE (IF IsItem(ls[i]) /\ TextOf(ls[i]) # <<>> THEN <<TextOf(ls[i])>> ELSE <<>>)
       \o ItemsFrom(ls, i + 1)

\* C23: parse gives one module per H1 line, with the ids module_1, module_2,
\* ... in the order of the lines; the objectives of a module are the list
\* items with text between its H1 and the next one, in their order, H2 lines
\* or not; items before the first H1 are in no module, and without an H1
\* there is no module.
C23_CurriculumModules ==
  pcall.op = "parse" =>
    LET ls == CurriculumOf(pcall.args)
        modules == pret.value
    IN /\ Len(modules) = Cardinality(H1Lines(ls))
       /\ \A k \in 1..Len(modules) :
            /\ modules[k].id = <<"module_", k>>
            /\ k <= Cardinality(H1Lines(ls)) =>
                 modules[k].objectives = ItemsFrom(ls, NthH1(ls, k) + 1)

\* the submit run is over
SubmitOver == sub_pc \in {"exit0", "exit1", "raised"}

\* the test command reached its last line: module_test.py is written and
\* assessment_pending is stored
TestSucceeded == cmd.name = "test" /\ cmd.end = "done"

\* the position of the module in modules.json, 0 when it is not there
IndexOfModule(modules, id) ==
  IF HasModule(modules, id)
    THEN CHOOSE i \in 1..Len(modules) : modules[i].id = id /\ \A j \in 1..(i - 1) : modules[j].id # id
    ELSE 0

\* the state that the claim describes after a pass
PassedFrom(before, after, modules) ==
  LET cur == before["current_module_id"]
      i == IndexOfModule(modules, cur)
  IN /\ \E k \in 1..Len(after["completed_modules"]) : after["completed_modules"][k] = cur
     /\ Get(after, "assessment_pending", TRUE) = FALSE
     /\ after["current_module_id"] =
          IF i > 0 /\ i < Len(modules) THEN modules[i + 1].id ELSE cur

\* C24: after a successful test command the next submit takes the assessment
\* branch; when the provider's answer starts with pass the state afterwards
\* has the current module completed, the flag cleared and the current module
\* advanced in the order of modules.json; otherwise the state is unchanged
C24_AssessmentFlow ==
  (TestSucceeded /\ SubmitOver) =>
    /\ sub_seen.assessment
    /\ sub_seen.grader = "pass" =>
         /\ sfile.exists
         /\ PassedFrom(sbefore.data, sfile.data, load_modules(modules_json).value)
    /\ sub_seen.grader = "fail" => sfile = sbefore

\* the hint count that a state file stores for a module, 0 without a file
StoredHints(f, module_id) ==
  IF f.exists THEN get_hint_count(f.data, module_id) ELSE 0

\* C25: a hint run that obtains a response adds one to the stored hint count
\* of the current module and leaves the other counts alone; the first, second
\* and every later hint for a module ask for a general, a more specific and a
\* very detailed hint; a run that ends before the response changes no count
C25_HintEscalation ==
  cmd.name = "hint" =>
    IF cmd.end = "done"
      THEN /\ StoredHints(tmfile, cmd.info.module)
                = StoredHints(tmbefore, cmd.info.module) + 1
           /\ \A m \in ModuleIds \ {cmd.info.module} :
                StoredHints(tmfile, m) = StoredHints(tmbefore, m)
           /\ cmd.info.request =
                CASE given[cmd.info.module] = 1 -> "general"
                  [] given[cmd.info.module] = 2 -> "more specific"
                  [] OTHER -> "very detailed"
      ELSE \A m \in ModuleIds : StoredHints(tmfile, m) = StoredHints(tmbefore, m)

\* the third hint for a module has been given
C25_Witness ==
  /\ cmd.name = "hint"
  /\ cmd.end = "done"
  /\ given[cmd.info.module] = 3
  /\ cmd.info.request = "very detailed"

\* a first hint for a module while the other module has hints already
C25_OtherModuleWitness ==
  /\ cmd.name = "hint"
  /\ cmd.end = "done"
  /\ cmd.info.request = "general"
  /\ \E m \in ModuleIds \ {cmd.info.module} : StoredHints(tmfile, m) > 0

\* runs that end before the response: no task, and no provider
C25_NotFoundWitness ==
  /\ cmd.name = "hint"
  /\ cmd.end = "not_found"
  /\ StoredHints(tmfile, cmd.info.module) > 0

C25_NoProviderWitness ==
  /\ cmd.name = "hint"
  /\ cmd.end = "caught"
  /\ cmd.info.provider = "unconfigured"
  /\ parse_tasks_json(tasks_json).kind = "return"
  /\ HasModule(parse_tasks_json(tasks_json).value, cmd.info.module)

\* the override that set-level has stored, "" when there is none
StoredOverride ==
  IF tmfile.exists THEN Get(tmfile.data, "difficulty_override", "") ELSE ""

\* the scaffolding level that the prompt names
LevelNamed(prompt, level) ==
  \E i \in LevelLines(prompt) :
    prompt[i] = CASE level = "BEGINNER" -> <<"User skill level: BEGINNER">>
                  [] level = "INTERMEDIATE" -> <<"User skill level: INTERMEDIATE">>
                  [] OTHER -> <<"User skill level: ADVANCED">>

\* set-level stores nothing but easy, medium and hard
C26_OnlyLevelsStored ==
  /\ StoredOverride \in Levels \cup {""}
  /\ (cmd.name = "set-level" /\ cmd.info \notin Levels) =>
       cmd.end = "exit1" /\ tmfile = tmbefore

\* C26: set-level accepts only easy, medium and hard and otherwise leaves
\* the state unchanged with exit code 1; once an override is stored, the next
\* run of next uses skill level 2.0, 5.0 or 8.0, and its prompt names the
\* level BEGINNER, INTERMEDIATE or ADVANCED whatever the module's score is
C26_DifficultyOverride ==
  /\ C26_OnlyLevelsStored
  /\ (cmd.name = "next" /\ cmd.end = "prompted" /\ StoredOverride \in Levels) =>
       /\ cmd.info.skill_level = Some(CASE StoredOverride = "easy" -> 20
                                        [] StoredOverride = "medium" -> 50
                                        [] OTHER -> 80)
       /\ LevelNamed(cmd.info.prompt,
                     CASE StoredOverride = "easy" -> "BEGINNER"
                       [] StoredOverride = "medium" -> "INTERMEDIATE"
                       [] OTHER -> "ADVANCED")

\* the needle of the call is a string with at least one character
NeedleGiven == ~todo_text.isNone /\ todo_text.s # <<>>

\* the positions of the markers whose label contains the needle
NeedleHits == {k \in 1..Len(todos) : ContainsIgnoringCase(todos[k][2], todo_text.s)}

\* the position that the index selects among N markers, 0 when out of range
IndexPosition(i, N) ==
  IF 0 <= i /\ i < N THEN i + 1
  ELSE IF -N <= i /\ i < 0 THEN N + i + 1
  ELSE 0

\* C27: a needle that is None or empty counts as absent and the marker is
\* selected by todo_index; with a non-empty needle todo_index plays no part:
\* the result is the block of the first marker whose label contains the
\* needle, also when the index is out of range
C27_SelectorPrecedence ==
  (ExtractDone /\ todos # <<>>) =>
    IF NeedleGiven
      THEN result = IF NeedleHits = {} THEN None ELSE ExpectedBlock(Min(NeedleHits))
      ELSE result = IF IndexPosition(todo_index, Len(todos)) = 0 THEN None
                    ELSE ExpectedBlock(IndexPosition(todo_index, Len(todos)))

\* a needle that a label contains, with an index that is out of range
C27_Witness ==
  /\ Returned
  /\ NeedleGiven
  /\ IndexPosition(todo_index, Len(todos)) = 0

\* the empty needle with an index that selects a marker other than the
\* first one, whose label contains the empty string as every label does
C27_EmptyNeedleWitness ==
  /\ Returned
  /\ call = "extract"
  /\ ~todo_text.isNone
  /\ todo_text.s = <<>>
  /\ IndexPosition(todo_index, Len(todos)) > 1
  /\ result.todo_line = todos[IndexPosition(todo_index, Len(todos))][1]

\* the empty needle with an index out of range: nothing is found
C27_EmptyNeedleNoneWitness ==
  /\ ExtractDone
  /\ ~todo_text.isNone
  /\ todos # <<>>
  /\ ~NeedleGiven
  /\ result = None

\* the lines of a block's range
RangeOf(block) == block.start_line..block.end_line

\* the block of the marker at scan position k of the file's text, as
\* extract_todo_code returns it for the index k - 1
BlockOfMarker(k) == ExtractAlone(file.content, NoneStr, k - 1)

\* C28: no line of the returned range [start_line, end_line] is a marker
\* line, and the ranges of the blocks of two different markers of one text
\* have no line in common
C28_RangesApart ==
  Returned =>
    /\ \A i \in RangeOf(result) : i \in 1..Len(lines) /\ ~PatternMatches(lines[i])
    /\ \A k \in 1..Len(todos) :
         LET block == BlockOfMarker(k)
         IN /\ block.kind = "CodeExtraction"
            /\ block.todo_line = todos[k][1]
            /\ todos[k][1] # result.todo_line =>
                 RangeOf(block) \cap RangeOf(result) = {}

\* the block has a line, and a later marker ends it
C28_Witness ==
  /\ Returned
  /\ RangeOf(result) # {}
  /\ \E k \in 1..Len(todos) : todos[k][1] = result.end_line + 1

\* a line with `// TODO` and nothing after it lies inside a block
C28_BareTodoWitness ==
  /\ Returned
  /\ \E i \in RangeOf(result) : HasIntroducer(lines[i])

\* the last call was update_state or increment_skill_score
UpdateOrIncrement == scall.op \in {"update_state", "increment_skill_score"}

NoDuplicates(list) ==
  \A i \in 1..Len(list), j \in 1..Len(list) : list[i] = list[j] => i = j

\* the module that the last call marked as completed, if it marked one
MarkedCompleted ==
  IF scall.op = "update_state" THEN scall.args.completed_module_id ELSE NoneArg

\* C29: through update_state and increment_skill_score, completed_modules
\* never holds an id twice and never loses one: marking a module that is
\* completed already leaves the list as it is, marking another one appends
\* it, and every other call leaves the list unchanged
C29_CompletedModules ==
  UpdateOrIncrement =>
    IF sret.kind = "raise" THEN sfile = sbefore
    ELSE LET before == sbefore.data["completed_modules"]
             after == sfile.data["completed_modules"]
         IN /\ NoDuplicates(after)
            /\ IsPrefix(before, after)
            /\ after =
                 IF MarkedCompleted.isNone
                      \/ \E i \in 1..Len(before) : before[i] = MarkedCompleted.v
                   THEN before
                   ELSE Append(before, MarkedCompleted.v)

\* a module that is completed already is marked again
C29_Witness ==
  /\ scall.op = "update_state"
  /\ sret.kind = "return"
  /\ ~MarkedCompleted.isNone
  /\ \E i \in 1..Len(sbefore.data["completed_modules"]) :
       sbefore.data["completed_modules"][i] = MarkedCompleted.v

\* both modules are completed, the second by the last call
C29_SecondWitness ==
  /\ scall.op = "update_state"
  /\ sret.kind = "return"
  /\ Len(sfile.data["completed_modules"]) = 2
  /\ Len(sbefore.data["completed_modules"]) = 1

\* an increment in a state with a completed module
C29_IncrementWitness ==
  /\ IncrementReturned
  /\ Len(sfile.data["completed_modules"]) >= 1

\* find_all_todos gives a list for the file, and the list is not empty:
\* submit takes such a file when no --file is given
AutoDetected ==
  LET all == find_all_todos(file)
  IN all.kind = "list" /\ all.todos # <<>>

\* the marker of the returned block is one that find_all_todos lists, and a
\* call with the default arguments returns None exactly when the list is
\* empty; the operator find_all_todos is what the call of it returns
ExtractAndFindAgree ==
  LET all == find_all_todos(file)
  IN /\ pc = "scanned" => all = [kind |-> "list", todos |-> found]
     /\ pc = "raised" => all.kind = "Raised"
     /\ pc = "done" =>
          /\ all.kind = "list"
          /\ Returned =>
               \E k \in 1..Len(all.todos) :
                 all.todos[k] = <<result.todo_line, result.todo_text>>
          /\ call = "extract_default" => ((result = None) = (all.todos = <<>>))

\* the call that submit makes: the needle of --todo, the default index
SubmitExtraction == ExtractDone /\ todo_index = DefaultTodoIndex

\* C30 as stated: extract_todo_code and find_all_todos agree on every file,
\* so a file that submit detected through find_all_todos always yields an
\* extraction
C30_AgreeAsStated ==
  /\ ExtractAndFindAgree
  /\ (SubmitExtraction /\ AutoDetected) => result.kind = "CodeExtraction"

\* C30: extract_todo_code and find_all_todos agree on every file, so a file
\* that submit detected through find_all_todos yields an extraction when no
\* needle is given with --todo or one of the file's labels contains it
C30_ExtractFindAgree ==
  /\ ExtractAndFindAgree
  /\ (SubmitExtraction /\ AutoDetected /\ (NeedleGiven => NeedleHits # {})) =>
       result.kind = "CodeExtraction"
  /\ (SubmitExtraction /\ AutoDetected /\ NeedleGiven /\ NeedleHits = {}) =>
       result = None

\* the default call on a file with several markers
C30_Witness ==
  /\ Returned
  /\ call = "extract_default"
  /\ Len(find_all_todos(file).todos) >= 2
  /\ result.todo_line = find_all_todos(file).todos[Len(todos)][1]

\* the default call on a text without a marker
C30_NoneWitness ==
  /\ pc = "done"
  /\ call = "extract_default"
  /\ file.readable
  /\ Len(lines) >= 2
  /\ result = None

\* a detected file and a needle that none of its labels contains
C30_NeedleMissWitness ==
  /\ SubmitExtraction
  /\ AutoDetected
  /\ NeedleGiven
  /\ result = None

====
